---------------------------- MODULE Spec2Model ----------------------------
(***************************************************************************)
(* A model of the electron-updater client of electron-builder-lib-slim:    *)
(* the update availability decision (AppUpdater.isUpdateAvailable,         *)
(* AppUpdater.isStagingMatch), the channel setter, and the single-flight   *)
(* update check (AppUpdater.checkForUpdates / doCheckForUpdates).          *)
(*                                                                         *)
(* Strings are sequences of one-character strings, so that parsing         *)
(* (semver, parseInt, UUID.parse) is computed and not assumed.             *)
(***************************************************************************)
EXTENDS Integers, Sequences, FiniteSets, TLC

(***************************************************************************)
(* Characters                                                              *)
(***************************************************************************)
Digits == {"0", "1", "2", "3", "4", "5", "6", "7", "8", "9"}

Letters == {"a", "b", "c", "d", "e", "f", "v", "x"}

DigitVal(c) ==
  CASE c = "0" -> 0 [] c = "1" -> 1 [] c = "2" -> 2 [] c = "3" -> 3
    [] c = "4" -> 4 [] c = "5" -> 5 [] c = "6" -> 6 [] c = "7" -> 7
    [] c = "8" -> 8 [] c = "9" -> 9

\* ASCII codes of the characters the model's strings are made of
CharCode(c) ==
  CASE c \in Digits -> 48 + DigitVal(c)
    [] c = "+" -> 43 [] c = "-" -> 45 [] c = "." -> 46 [] c = "=" -> 61
    [] c = "%" -> 37 [] c = " " -> 32
    [] c = "a" -> 97 [] c = "b" -> 98 [] c = "c" -> 99 [] c = "d" -> 100
    [] c = "e" -> 101 [] c = "f" -> 102 [] c = "v" -> 118 [] c = "x" -> 120

IsNumeric(s) == Len(s) > 0 /\ \A i \in 1..Len(s) : s[i] \in Digits

IsAlnum(s) == Len(s) > 0 /\ \A i \in 1..Len(s) : s[i] \in Digits \cup Letters \cup {"-"}

RECURSIVE NumVal(_)
NumVal(s) == IF Len(s) = 0 THEN 0
             ELSE 10 * NumVal(SubSeq(s, 1, Len(s) - 1)) + DigitVal(s[Len(s)])

\* index of the first occurrence of c in s, 0 when there is none
IndexOf(s, c) ==
  IF \E i \in 1..Len(s) : s[i] = c
  THEN CHOOSE i \in 1..Len(s) : s[i] = c /\ \A j \in 1..(i - 1) : s[j] # c
  ELSE 0

RECURSIVE Split(_, _)
Split(s, sep) ==
  LET i == IndexOf(s, sep)
  IN IF i = 0 THEN <<s>>
     ELSE <<SubSeq(s, 1, i - 1)>> \o Split(SubSeq(s, i + 1, Len(s)), sep)

(***************************************************************************)
(* Semantic versions: parse, eq, gt, lt of the semver package, as          *)
(* imported by AppUpdater.ts.  A parsed version is a record; ok = FALSE    *)
(* stands for parse() returning null.                                      *)
(***************************************************************************)
NoVersion == [ok |-> FALSE, major |-> 0, minor |-> 0, patch |-> 0, prerelease |-> <<>>]

\* strict: one optional leading "v"; loose: any run of "v", "=" and blanks
RECURSIVE StripPrefix(_, _)
StripPrefix(s, loose) ==
  IF Len(s) = 0 THEN s
  ELSE IF loose
       THEN IF s[1] \in {"v", "=", " "} THEN StripPrefix(Tail(s), loose) ELSE s
       ELSE IF s[1] = "v" THEN Tail(s) ELSE s

\* a numeric identifier: digits, and in strict mode no leading zero
IsNumericIdentifier(s, loose) ==
  IsNumeric(s) /\ (loose \/ Len(s) = 1 \/ s[1] # "0")

IsPrereleaseIdentifier(s, loose) ==
  IsAlnum(s) /\ (IsNumeric(s) => IsNumericIdentifier(s, loose))

parseVersion(version, loose) ==
  LET r     == StripPrefix(version, loose)
      plus  == IndexOf(r, "+")
      main  == IF plus = 0 THEN r ELSE SubSeq(r, 1, plus - 1)
      build == IF plus = 0 THEN <<>> ELSE SubSeq(r, plus + 1, Len(r))
      hyph  == IndexOf(main, "-")
      core  == IF hyph = 0 THEN main ELSE SubSeq(main, 1, hyph - 1)
      pre   == IF hyph = 0 THEN <<>> ELSE SubSeq(main, hyph + 1, Len(main))
      parts == Split(core, ".")
      ids   == IF hyph = 0 THEN <<>> ELSE Split(pre, ".")
      bids  == IF plus = 0 THEN <<>> ELSE Split(build, ".")
  IN IF /\ Len(parts) = 3
        /\ \A i \in 1..3 : IsNumericIdentifier(parts[i], loose)
        /\ \A i \in 1..Len(ids) : IsPrereleaseIdentifier(ids[i], loose)
        /\ \A i \in 1..Len(bids) : IsAlnum(bids[i])
     THEN [ok |-> TRUE, major |-> NumVal(parts[1]), minor |-> NumVal(parts[2]),
           patch |-> NumVal(parts[3]), prerelease |-> ids]
     ELSE NoVersion

Sign(a, b) == IF a < b THEN -1 ELSE IF a > b THEN 1 ELSE 0

\* ASCII order of two strings
RECURSIVE CompareStrings(_, _)
CompareStrings(a, b) ==
  IF Len(a) = 0 \/ Len(b) = 0 THEN Sign(Len(a), Len(b))
  ELSE IF a[1] # b[1] THEN Sign(CharCode(a[1]), CharCode(b[1]))
  ELSE CompareStrings(Tail(a), Tail(b))

\* semver's compareIdentifiers: numeric identifiers sort below the others
compareIdentifiers(a, b) ==
  IF IsNumeric(a) /\ IsNumeric(b) THEN Sign(NumVal(a), NumVal(b))
  ELSE IF IsNumeric(a) THEN -1
  ELSE IF IsNumeric(b) THEN 1
  ELSE CompareStrings(a, b)

RECURSIVE comparePre(_, _)
comparePre(a, b) ==
  IF Len(a) = 0 /\ Len(b) = 0 THEN 0
  ELSE IF Len(b) = 0 THEN 1
  ELSE IF Len(a) = 0 THEN -1
  ELSE IF compareIdentifiers(a[1], b[1]) # 0 THEN compareIdentifiers(a[1], b[1])
  ELSE comparePre(Tail(a), Tail(b))

\* SemVer.compare: the main version, then the prerelease; the build is ignored
compareVersions(a, b) ==
  IF a.major # b.major THEN Sign(a.major, b.major)
  ELSE IF a.minor # b.minor THEN Sign(a.minor, b.minor)
  ELSE IF a.patch # b.patch THEN Sign(a.patch, b.patch)
  ELSE IF Len(a.prerelease) > 0 /\ Len(b.prerelease) = 0 THEN -1
  ELSE IF Len(a.prerelease) = 0 /\ Len(b.prerelease) > 0 THEN 1
  ELSE comparePre(a.prerelease, b.prerelease)

isVersionsEqual(a, b) == compareVersions(a, b) = 0

isVersionGreaterThan(a, b) == compareVersions(a, b) > 0

isVersionLessThan(a, b) == compareVersions(a, b) < 0

(***************************************************************************)
(* The staging gate.                                                       *)
(*                                                                         *)
(* A nullable string is a record [isNull, s].  A staging user id is        *)
(* represented by the last 8 hexadecimal digits of the UUID (bytes 12..15  *)
(* of the 16 bytes UUID.parse yields), the only part isStagingMatch reads. *)
(* An unsigned 32-bit value is kept as two 16-bit halves [hi, lo].         *)
(***************************************************************************)
Null == [isNull |-> TRUE, s |-> <<>>]

Str(s) == [isNull |-> FALSE, s |-> s]

HexVal(c) ==
  CASE c \in Digits -> DigitVal(c)
    [] c = "a" -> 10 [] c = "b" -> 11 [] c = "c" -> 12
    [] c = "d" -> 13 [] c = "e" -> 14 [] c = "f" -> 15

\* UUID.parse: two hexadecimal digits per byte
UUIDparse(hex) == [i \in 1..(Len(hex) \div 2) |-> 16 * HexVal(hex[2 * i - 1]) + HexVal(hex[2 * i])]

\* Buffer.readUInt32BE at the offset of the first of the four last bytes
readUInt32BE(buf) == [hi |-> 256 * buf[1] + buf[2], lo |-> 256 * buf[3] + buf[4]]

RECURSIVE SkipBlanks(_)
SkipBlanks(s) == IF Len(s) > 0 /\ s[1] = " " THEN SkipBlanks(Tail(s)) ELSE s

RECURSIVE LeadingDigits(_)
LeadingDigits(s) ==
  IF Len(s) > 0 /\ s[1] \in Digits THEN <<s[1]>> \o LeadingDigits(Tail(s)) ELSE <<>>

\* parseInt(string, 10): blanks, an optional sign, the leading run of digits
parseInt(s) ==
  LET t    == SkipBlanks(s)
      neg  == Len(t) > 0 /\ t[1] = "-"
      body == IF Len(t) > 0 /\ t[1] \in {"-", "+"} THEN Tail(t) ELSE t
      ds   == LeadingDigits(body)
  IN IF Len(ds) = 0 THEN [nan |-> TRUE, n |-> 0]
     ELSE [nan |-> FALSE, n |-> IF neg THEN 0 - NumVal(ds) ELSE NumVal(ds)]

(* val / 0xffffffff < stagingPercentage / 100, the comparison of line 318.  *)
(* Two distinct quotients of this shape differ by more than 2e-12, far more *)
(* than a double's rounding, so the comparison of the doubles is that of    *)
(* the exact quotients: 100 * val < P * (2^32 - 1), that is                  *)
(* 100 * val + P < P * 2^32, computed on 16-bit halves.                      *)
\* mutant: <= in place of <
PercentageLessOrEqual(val, stagingPercentage) ==
  LET t == 100 * val.lo + stagingPercentage - 1
  IN 100 * val.hi + (t \div 65536) < stagingPercentage * 65536

PercentageLess(val, stagingPercentage) ==
  LET t == 100 * val.lo + stagingPercentage
  IN 100 * val.hi + (t \div 65536) < stagingPercentage * 65536

\* mutant: an install without a staging user id is refused
isStagingMatchFailClosed(updateInfo, stagingUserId) ==
  LET rawStagingPercentage == updateInfo.stagingPercentage
      stagingPercentage    == parseInt(rawStagingPercentage.s)
  IN IF rawStagingPercentage.isNull THEN TRUE
     ELSE IF stagingPercentage.nan THEN TRUE
     ELSE IF stagingUserId.isNull THEN FALSE
     ELSE PercentageLess(readUInt32BE(UUIDparse(stagingUserId.s)), stagingPercentage.n)

isStagingMatch(updateInfo, stagingUserId) ==
  LET rawStagingPercentage == updateInfo.stagingPercentage
      stagingPercentage    == parseInt(rawStagingPercentage.s)
  IN IF rawStagingPercentage.isNull THEN TRUE
     ELSE IF stagingPercentage.nan THEN TRUE
     ELSE IF stagingUserId.isNull THEN TRUE
     ELSE PercentageLess(readUInt32BE(UUIDparse(stagingUserId.s)), stagingPercentage.n)

(***************************************************************************)
(* AppUpdater.isUpdateAvailable.  The result records the value returned or *)
(* the error thrown, and whether the staging gate was consulted.           *)
(***************************************************************************)
Returned(b, gate) == [threw |-> FALSE, code |-> "", available |-> b, stagingConsulted |-> gate]

Thrown(code) == [threw |-> TRUE, code |-> code, available |-> FALSE, stagingConsulted |-> FALSE]

\* mutant: allowDowngrade is not consulted, any other version is taken
isUpdateAvailableAnyOrder(semver, current, downgrade, updateInfo, stagingUserId) ==
  LET latestVersion  == parseVersion(updateInfo.version, semver = "loose")
      currentVersion == parseVersion(current, semver = "loose")
  IN IF semver = "false" THEN Returned(updateInfo.version # current, FALSE)
     ELSE IF ~latestVersion.ok THEN Thrown("ERR_UPDATER_INVALID_VERSION")
     ELSE IF ~currentVersion.ok THEN Thrown("ERR_UPDATER_INVALID_VERSION")
     ELSE IF isVersionsEqual(latestVersion, currentVersion) THEN Returned(FALSE, FALSE)
     ELSE IF ~isStagingMatch(updateInfo, stagingUserId) THEN Returned(FALSE, TRUE)
     ELSE Returned(TRUE, TRUE)

\* mutant: a version that does not parse counts as no update
isUpdateAvailableLenient(semver, current, downgrade, updateInfo, stagingUserId) ==
  LET latestVersion  == parseVersion(updateInfo.version, semver = "loose")
      currentVersion == parseVersion(current, semver = "loose")
  IN IF semver = "false" THEN Returned(updateInfo.version # current, FALSE)
     ELSE IF ~latestVersion.ok THEN Returned(FALSE, FALSE)
     ELSE IF ~currentVersion.ok THEN Returned(FALSE, FALSE)
     ELSE IF isVersionsEqual(latestVersion, currentVersion) THEN Returned(FALSE, FALSE)
     ELSE IF ~isStagingMatch(updateInfo, stagingUserId) THEN Returned(FALSE, TRUE)
     ELSE IF isVersionGreaterThan(latestVersion, currentVersion) THEN Returned(TRUE, TRUE)
     ELSE Returned(downgrade /\ isVersionLessThan(latestVersion, currentVersion), TRUE)

\* mutant: a newer version is taken before the staging gate is asked
isUpdateAvailableNewerFirst(semver, current, downgrade, updateInfo, stagingUserId) ==
  LET latestVersion  == parseVersion(updateInfo.version, semver = "loose")
      currentVersion == parseVersion(current, semver = "loose")
  IN IF semver = "false" THEN Returned(updateInfo.version # current, FALSE)
     ELSE IF ~latestVersion.ok THEN Thrown("ERR_UPDATER_INVALID_VERSION")
     ELSE IF ~currentVersion.ok THEN Thrown("ERR_UPDATER_INVALID_VERSION")
     ELSE IF isVersionsEqual(latestVersion, currentVersion) THEN Returned(FALSE, FALSE)
     ELSE IF isVersionGreaterThan(latestVersion, currentVersion) THEN Returned(TRUE, FALSE)
     ELSE IF ~isStagingMatch(updateInfo, stagingUserId) THEN Returned(FALSE, TRUE)
     ELSE Returned(downgrade /\ isVersionLessThan(latestVersion, currentVersion), TRUE)

\* mutant: the raw string mode goes through the staging gate as well
isUpdateAvailableRawStaged(semver, current, downgrade, updateInfo, stagingUserId) ==
  LET latestVersion  == parseVersion(updateInfo.version, semver = "loose")
      currentVersion == parseVersion(current, semver = "loose")
  IN IF semver = "false"
     THEN Returned(updateInfo.version # current /\ isStagingMatch(updateInfo, stagingUserId), TRUE)
     ELSE IF ~latestVersion.ok THEN Thrown("ERR_UPDATER_INVALID_VERSION")
     ELSE IF ~currentVersion.ok THEN Thrown("ERR_UPDATER_INVALID_VERSION")
     ELSE IF isVersionsEqual(latestVersion, currentVersion) THEN Returned(FALSE, FALSE)
     ELSE IF ~isStagingMatch(updateInfo, stagingUserId) THEN Returned(FALSE, TRUE)
     ELSE IF isVersionGreaterThan(latestVersion, currentVersion) THEN Returned(TRUE, TRUE)
     ELSE Returned(downgrade /\ isVersionLessThan(latestVersion, currentVersion), TRUE)

isUpdateAvailable(semver, current, downgrade, updateInfo, stagingUserId) ==
  LET latestVersion  == parseVersion(updateInfo.version, semver = "loose")
      currentVersion == parseVersion(current, semver = "loose")
  IN IF semver = "false" THEN Returned(updateInfo.version # current, FALSE)
     ELSE IF ~latestVersion.ok THEN Thrown("ERR_UPDATER_INVALID_VERSION")
     ELSE IF ~currentVersion.ok THEN Thrown("ERR_UPDATER_INVALID_VERSION")
     ELSE IF isVersionsEqual(latestVersion, currentVersion) THEN Returned(FALSE, FALSE)
     ELSE IF ~isStagingMatch(updateInfo, stagingUserId) THEN Returned(FALSE, TRUE)
     ELSE IF isVersionGreaterThan(latestVersion, currentVersion) THEN Returned(TRUE, TRUE)
     ELSE Returned(downgrade /\ isVersionLessThan(latestVersion, currentVersion), TRUE)

(***************************************************************************)
(* Inputs                                                                  *)
(***************************************************************************)
V_1_0_0 == <<"1", ".", "0", ".", "0">>

V_1_1_0 == <<"1", ".", "1", ".", "0">>

V_0_9_0 == <<"0", ".", "9", ".", "0">>

V_1_0_0_pre == <<"1", ".", "0", ".", "0", "-", "b", ".", "4">>

V_1_0_0_build == <<"1", ".", "0", ".", "0", "+", "b">>

V_v1_0_0 == <<"v", "1", ".", "0", ".", "0">>

V_eq1_0_0 == <<"=", "1", ".", "0", ".", "0">>

V_1_0 == <<"1", ".", "0">>

V_b42 == <<"b", "-", "4", "2">>

V_b43 == <<"b", "-", "4", "3">>

\* the version strings the pure decision is applied to
VersionStrings ==
  {V_1_0_0, V_1_1_0, V_0_9_0, V_1_0_0_pre, V_1_0_0_build, V_v1_0_0, V_eq1_0_0,
   V_1_0, V_b42, V_b43}

\* stagingPercentage of a manifest: absent, or its text
StagingPercentages ==
  {Null, Str(<<>>), Str(<<"x">>), Str(<<"0">>), Str(<<"1">>), Str(<<"2", "0">>),
   Str(<<"5", "0">>), Str(<<"9", "9">>), Str(<<"1", "0", "0">>),
   Str(<<"1", "5", "0">>), Str(<<"-", "5">>), Str(<<"5", "x">>)}

\* the last four bytes of the staging user id, in hexadecimal; the test's id
\* 12a70172-80f8-5cc4-8131-28f5e0edd2a1 ends with e0edd2a1
StagingUserIds ==
  {Null,
   Str(<<"0", "0", "0", "0", "0", "0", "0", "0">>),
   Str(<<"0", "0", "0", "0", "0", "0", "0", "1">>),
   Str(<<"0", "2", "8", "f", "5", "c", "2", "8">>),
   Str(<<"0", "2", "8", "f", "5", "c", "2", "9">>),
   Str(<<"3", "3", "3", "3", "3", "3", "3", "2">>),
   Str(<<"3", "3", "3", "3", "3", "3", "3", "3">>),
   Str(<<"7", "f", "f", "f", "f", "f", "f", "f">>),
   Str(<<"8", "0", "0", "0", "0", "0", "0", "0">>),
   Str(<<"e", "0", "e", "d", "d", "2", "a", "1">>),
   Str(<<"f", "d", "7", "0", "a", "3", "d", "6">>),
   Str(<<"f", "d", "7", "0", "a", "3", "d", "7">>),
   Str(<<"f", "f", "f", "f", "f", "f", "f", "e">>),
   Str(<<"f", "f", "f", "f", "f", "f", "f", "f">>)}

UseSemverValues == {"true", "loose", "false"}

UpdateInfo(version, stagingPercentage) ==
  [version |-> version, stagingPercentage |-> stagingPercentage]

(***************************************************************************)
(* State                                                                   *)
(***************************************************************************)
VARIABLES
  autoDownload,            \* AppUpdater.autoDownload
  allowDowngrade,          \* AppUpdater.allowDowngrade
  useSemver,               \* AppUpdater.useSemver: "true", "loose" or "false"
  currentVersionString,    \* AppUpdater.currentVersionString
  channel,                 \* AppUpdater._channel
  provider,                \* what clientPromise resolves to: "none" or "generic"
  stagingUserId,           \* what stagingUserIdPromise resolves to
  checkForUpdatesPromise,  \* the promise of the check in flight, 0 for null
  updateInfoAndProvider,   \* the update found last
  checks,                  \* the checks started: promise id -> its progress
  lastCall,                \* the call of the public interface made in the last
                           \* step and its outcome; "none" after an internal step
  arg,                     \* the manifest a pure function is applied to
  ret,                     \* isUpdateAvailable's outcome on arg
  gate,                    \* isStagingMatch's outcome on arg
  platform,                \* process.platform
  cacheDir,                \* the cache directory: the CachedUpdateInfo record and
                           \* the update file in it (its size, 0 when absent)
  helperFile,              \* downloadedUpdateHelper.file is set
  tokens,                  \* the cancellation tokens created: cancelled or not
  downloads,               \* the downloads started: promise id -> its progress
  lastResult,              \* the UpdateCheckResult of the last check that found
                           \* an update
  installCalled,           \* BaseUpdater.installCalled
  installs,                \* the install calls made: their progress
  idFile,                  \* the staging user id file (.updaterId)
  stagingUserIdPromise,    \* AppUpdater.stagingUserIdPromise, a Lazy
  idWaiters,               \* the checks awaiting stagingUserIdPromise.value
  usedIds,                 \* the staging user ids the checks went on with
  oldBlocks,               \* the checksums of the blocks of the old file, in order
  newBlocks,               \* the checksums of the blocks of the new file, in order
  maxRequests,             \* the ceiling of the number of range requests
  plan,                    \* the download plan computed, once it is
  configFile,              \* what the update config file on disk holds
  configOnDisk,            \* AppUpdater.configOnDisk, a Lazy
  clientPromise,           \* AppUpdater.clientPromise
  providerCalls,           \* the calls of getProvider, loadUpdateConfig and
                           \* createClient made
  providerResult,          \* what the last getProvider or setFeedURL gave
  apps,                    \* two installed applications with an updater each
  downloadedUpdateHelper,  \* the cache directory of the download helper of each
                           \* updater, once it is created
  isExternalApp,           \* app.isExternalApp
  quitCalls,               \* the quitAndInstall calls made: what each did
  immediates,              \* the setImmediate callbacks of quitAndInstall that wait
  quitEvents,              \* 'before-quit-for-update' emissions and app.quit() calls
  externalCalls,           \* the installExternal calls made: their progress
  quitHandlerAdded,        \* BaseUpdater.quitHandlerAdded
  autoInstallOnAppQuit,    \* AppUpdater.autoInstallOnAppQuit
  onQuitHandlers,          \* the number of handlers given to app.onQuit
  appQuits,                \* the quits of the app: what the quit handler did
  artifact,                \* the ArtifactCreated event and the publish configurations
                           \* createUpdateInfoTasks is called with
  updateInfoTasks,         \* the files of the tasks createUpdateInfoTasks returned
  afterPackHandlers,       \* Packager.afterPackHandlers
  configAfterPack,         \* config.afterPack is set
  packs,                   \* the afterPack calls made: their progress
  artifactEvents,          \* the ArtifactCreated events the publish manager got
  infos,                   \* the UpdateInfo objects: the files list of each
  updateFileWriteTask,     \* PublishManager.updateFileWriteTask
  updateChannelFileToInfo, \* the tasks writeUpdateInfoFiles kept, in map order
  pendingWrites,           \* the kept tasks whose callback has not run
  writtenFiles,            \* the update-info files written: path and content
  dispatchedArtifacts,     \* the artifactCreated events of written files
  buildPc,                 \* where build(options) is
  sigIntListener,          \* the SIGINT listener of build is registered
  tokenCancelled,          \* packager.cancellationToken.cancelled
  buildLog,                \* what build did to the publish manager, in order
  buildTasks,              \* the update-info tasks the publish manager of build holds
  buildWritten,            \* the update-info files awaitTasks of build has written
  toDispose,               \* Packager.toDispose
  doBuildPc,               \* where _build is
  disposing,               \* the disposers the finally handler still has to run
  disposeLog,              \* the disposers run, in order, and how each ended
  debugLoggerEnabled,      \* packager.debugLogger.isEnabled
  doBuildOutcome,          \* how doBuild() settled
  disposersRegistered      \* the number of disposeOnBuildFinish calls

vars == <<autoDownload, allowDowngrade, useSemver, currentVersionString, channel,
          provider, stagingUserId, checkForUpdatesPromise, updateInfoAndProvider,
          checks, lastCall, arg, ret, gate, platform, cacheDir, helperFile, tokens,
          downloads, lastResult, installCalled, installs,
          idFile, stagingUserIdPromise, idWaiters, usedIds,
          oldBlocks, newBlocks, maxRequests, plan,
          configFile, configOnDisk, clientPromise, providerCalls, providerResult,
          apps, downloadedUpdateHelper,
          isExternalApp, quitCalls, immediates, quitEvents, externalCalls,
          quitHandlerAdded, autoInstallOnAppQuit, onQuitHandlers, appQuits,
          artifact, updateInfoTasks, afterPackHandlers, configAfterPack, packs,
          artifactEvents, infos, updateFileWriteTask, updateChannelFileToInfo,
          pendingWrites, writtenFiles, dispatchedArtifacts,
          buildPc, sigIntListener, tokenCancelled, buildLog, buildTasks, buildWritten,
          toDispose, doBuildPc, disposing, disposeLog, debugLoggerEnabled,
          doBuildOutcome, disposersRegistered>>

\* the state of the staging user id
stagingVars == <<idFile, stagingUserIdPromise, idWaiters, usedIds>>

\* the input and the output of the range-request planner
planVars == <<oldBlocks, newBlocks, maxRequests, plan>>

\* the provider of the updater and the config it is created from
providerVars == <<configFile, configOnDisk, clientPromise, providerCalls, providerResult>>

\* the installed applications and the cache directories of their updaters
helperVars == <<apps, downloadedUpdateHelper>>

\* the state of quitAndInstall
quitVars == <<isExternalApp, quitCalls, immediates, quitEvents, externalCalls,
              quitHandlerAdded, autoInstallOnAppQuit, onQuitHandlers, appQuits>>

\* the state of the quit handler
onQuitVars == <<quitHandlerAdded, autoInstallOnAppQuit, onQuitHandlers, appQuits>>

\* the input and the output of createUpdateInfoTasks
publishVars == <<artifact, updateInfoTasks>>

\* the afterPack handlers of the packager and its packs
packVars == <<afterPackHandlers, configAfterPack, packs>>

\* the update-info file tasks of the publish manager and what is written
writeVars == <<artifactEvents, infos, updateFileWriteTask, updateChannelFileToInfo,
               pendingWrites, writtenFiles, dispatchedArtifacts>>

\* the state of build(options)
buildVars == <<buildPc, sigIntListener, tokenCancelled, buildLog, buildTasks, buildWritten>>

\* the disposers of the packager and the state of _build
disposeVars == <<toDispose, doBuildPc, disposing, disposeLog, debugLoggerEnabled,
                 doBuildOutcome, disposersRegistered>>

\* the state of the build beside the packs
moreVars == <<writeVars, buildVars, disposeVars>>

\* the state beside the update check and the download
otherVars == <<stagingVars, planVars, providerVars, helperVars, quitVars, publishVars,
               packVars, moreVars>>

downloadVars == <<platform, cacheDir, helperFile, tokens, downloads, lastResult,
                  installCalled, installs>>

fields == <<autoDownload, allowDowngrade, useSemver, currentVersionString, channel,
            provider, stagingUserId>>

checkVars == <<checkForUpdatesPromise, updateInfoAndProvider, checks>>

pureVars == <<arg, ret, gate>>

\* the number of update checks a behaviour starts
MaxChecks == 2

NoInfo == [isNull |-> TRUE, info |-> UpdateInfo(<<>>, Null), stagingUserId |-> Null]

\* a value assigned to the channel property: null, or a string
NullChannel == [t |-> "null", s |-> <<>>]

ChannelValues ==
  {NullChannel, [t |-> "string", s |-> <<>>], [t |-> "string", s |-> <<"b", "e", "t", "a">>]}

\* ret: the promise checkForUpdates returned, 0 for the other calls
NoCall == [op |-> "none", threw |-> FALSE, code |-> "", ret |-> 0]

NoResult == [done |-> FALSE, result |-> Returned(FALSE, FALSE)]

\* a CachedUpdateInfo record; isNull when the cache directory holds none
CachedUpdateInfo(version, sha512, size) ==
  [isNull |-> FALSE, version |-> version, sha512 |-> sha512, size |-> size]

NoCachedUpdateInfo == [isNull |-> TRUE, version |-> <<>>, sha512 |-> "", size |-> 0]

EmptyCacheDir == [record |-> NoCachedUpdateInfo, updateFile |-> 0]

\* the staging user id file: absent path (file == null), missing, unreadable,
\* or a text that UUID.check accepts or not
IdFile(kind, text, valid) == [kind |-> kind, text |-> text, valid |-> valid]

\* stagingUserIdPromise before its value is asked for
LazyUnset == [pc |-> "unset", id |-> "", generated |-> 0, writes |-> 0]

StagingIdle ==
  /\ idFile = IdFile("missing", "", FALSE)
  /\ stagingUserIdPromise = LazyUnset
  /\ idWaiters = 0
  /\ usedIds = <<>>

\* no plan has been computed
NoPlan == [done |-> FALSE, operations |-> <<>>]

PlanIdle ==
  /\ oldBlocks = <<>>
  /\ newBlocks = <<>>
  /\ maxRequests = 1
  /\ plan = NoPlan

\* a publish configuration: a string, or an object with its provider name, and
\* for "generic" the url and useMultipleRangeRequest ("unset", "true",
\* "false"), for "custom" whether updateProvider is given; t = "null" is no
\* configuration and t = "missing" no file
PublishConfiguration(t, name, url, useMultipleRangeRequest, updateProvider) ==
  [t |-> t, provider |-> name, url |-> url,
   useMultipleRangeRequest |-> useMultipleRangeRequest,
   updateProvider |-> updateProvider]

NoConfiguration == PublishConfiguration("null", "", <<>>, "unset", FALSE)

\* a Provider: its class, the options it was made from and its runtime option
\* isUseMultipleRangeRequest
NoProvider == [kind |-> "null", options |-> NoConfiguration,
               isUseMultipleRangeRequest |-> FALSE]

\* a promise not there (null), or how it settled
NoPromise == [state |-> "null", code |-> "", provider |-> NoProvider]

\* configOnDisk before its value is asked for
NotLoaded == [loaded |-> FALSE,
              data |-> [state |-> "null", code |-> "", data |-> NoConfiguration]]

ProviderIdle ==
  /\ configFile = NoConfiguration
  /\ configOnDisk = NotLoaded
  /\ clientPromise = NoPromise
  /\ providerCalls = [gets |-> 0, reads |-> 0, creates |-> 0]
  /\ providerResult = NoPromise

\* an installed application: the name of the app, the channel of its update
\* config and the updaterCacheDirName of that config
Installation(name, ch, dirName) ==
  [name |-> name, channel |-> ch, updaterCacheDirName |-> dirName]

\* no download helper yet (downloadedUpdateHelper == null)
NoHelper == <<>>

HelperIdle ==
  /\ apps = <<>>
  /\ downloadedUpdateHelper = <<>>

OnQuitIdle ==
  /\ quitHandlerAdded = FALSE
  /\ autoInstallOnAppQuit = TRUE
  /\ onQuitHandlers = 0
  /\ appQuits = <<>>

QuitIdle ==
  /\ isExternalApp = FALSE
  /\ quitCalls = <<>>
  /\ immediates = 0
  /\ quitEvents = <<>>
  /\ externalCalls = <<>>
  /\ OnQuitIdle

\* createUpdateInfoTasks has not returned
NoTasks == [done |-> FALSE, tasks |-> <<>>]

PublishIdle ==
  /\ artifact = <<>>
  /\ updateInfoTasks = NoTasks

PackIdle ==
  /\ afterPackHandlers = <<>>
  /\ configAfterPack = FALSE
  /\ packs = <<>>

WriteIdle ==
  /\ artifactEvents = <<>>
  /\ infos = <<>>
  /\ updateFileWriteTask = <<>>
  /\ updateChannelFileToInfo = <<>>
  /\ pendingWrites = {}
  /\ writtenFiles = {}
  /\ dispatchedArtifacts = {}

BuildIdle ==
  /\ buildPc = "none"
  /\ sigIntListener = FALSE
  /\ tokenCancelled = FALSE
  /\ buildLog = <<>>
  /\ buildTasks = 0
  /\ buildWritten = 0

DisposeIdle ==
  /\ toDispose = <<>>
  /\ doBuildPc = "none"
  /\ disposing = <<>>
  /\ disposeLog = <<>>
  /\ debugLoggerEnabled = FALSE
  /\ doBuildOutcome = "none"
  /\ disposersRegistered = 0

MoreIdle == WriteIdle /\ BuildIdle /\ DisposeIdle

\* the components that a specification leaves alone
OtherIdle ==
  /\ StagingIdle /\ PlanIdle /\ ProviderIdle /\ HelperIdle /\ QuitIdle /\ PublishIdle
  /\ PackIdle /\ MoreIdle

NoCheckResult == [cancellationToken |-> 0, downloadPromise |-> 0]

(***************************************************************************)
(* The pure decision, applied to drawn inputs                              *)
(***************************************************************************)
InitDecide ==
  /\ autoDownload = TRUE
  /\ allowDowngrade \in BOOLEAN
  /\ useSemver \in UseSemverValues
  /\ currentVersionString \in VersionStrings
  /\ channel = NullChannel
  /\ provider = "generic"
  /\ stagingUserId \in StagingUserIds
  /\ checkForUpdatesPromise = 0
  /\ updateInfoAndProvider = NoInfo
  /\ checks = <<>>
  /\ lastCall = NoCall
  /\ arg \in {UpdateInfo(v, p) : v \in VersionStrings, p \in StagingPercentages}
  /\ ret = NoResult
  /\ gate = "none"
  /\ platform = "linux"
  /\ cacheDir = EmptyCacheDir
  /\ helperFile = FALSE
  /\ tokens = <<>>
  /\ downloads = <<>>
  /\ lastResult = NoCheckResult
  /\ installCalled = FALSE
  /\ installs = <<>>
  /\ OtherIdle

CallIsUpdateAvailable ==
  /\ ~ret.done
  /\ ret' = [done |-> TRUE,
             result |-> isUpdateAvailable(useSemver, currentVersionString,
                                          allowDowngrade, arg, stagingUserId)]
  /\ UNCHANGED <<fields, checkVars, lastCall, arg, gate, downloadVars, otherVars>>

CallIsStagingMatch ==
  /\ gate = "none"
  /\ gate' = IF isStagingMatch(arg, stagingUserId) THEN "pass" ELSE "fail"
  /\ UNCHANGED <<fields, checkVars, lastCall, arg, ret, downloadVars, otherVars>>

NextDecide == CallIsUpdateAvailable \/ CallIsStagingMatch

SpecDecide == InitDecide /\ [][NextDecide]_vars

(***************************************************************************)
(* Properties of the pure decision (under SpecDecide)                      *)
(***************************************************************************)

\* what the semver package answers for the version strings of the model:
\* whether parse() accepts the string, and its place in semver's order
Parseable(v, semver) ==
  \/ v \in {V_1_0_0, V_1_1_0, V_0_9_0, V_1_0_0_pre, V_1_0_0_build, V_v1_0_0}
  \/ semver = "loose" /\ v = V_eq1_0_0

Rank(v) ==
  CASE v = V_0_9_0 -> 1
    [] v = V_1_0_0_pre -> 2
    [] v \in {V_1_0_0, V_1_0_0_build, V_v1_0_0, V_eq1_0_0} -> 3
    [] v = V_1_1_0 -> 4

C3_RawStringMode ==
  (ret.done /\ useSemver = "false")
  => /\ ~ret.result.threw
     /\ ret.result.available <=> (arg.version # currentVersionString)
     /\ ~ret.result.stagingConsulted

\* b-42 against b-43, downgrade disallowed, an install outside a 0 % rollout
C3_Witness ==
  /\ ret.done
  /\ useSemver = "false"
  /\ currentVersionString = V_b43
  /\ arg.version = V_b42
  /\ ~allowDowngrade
  /\ arg.stagingPercentage = Str(<<"0">>)
  /\ ~stagingUserId.isNull
  /\ ret.result.available

\* the text of an integer: an optional minus sign and digits
IsIntegerText(s) ==
  IF Len(s) > 0 /\ s[1] = "-" THEN IsNumeric(Tail(s)) ELSE IsNumeric(s)

IntegerValue(s) == IF s[1] = "-" THEN 0 - NumVal(Tail(s)) ELSE NumVal(s)

RECURSIVE HexNum(_)
HexNum(s) == IF Len(s) = 0 THEN 0
             ELSE 16 * HexNum(SubSeq(s, 1, Len(s) - 1)) + HexVal(s[Len(s)])

(* v / (2^32 - 1) < P / 100 for the 32-bit value v whose hexadecimal text is *)
(* hex, by long division: for P >= 1, P * (2^32 - 1) is                      *)
(* (P * 2^16 - 1) * 2^16 + (2^16 - P); its quotient by 100 is [qh, ql] with *)
(* remainder rl, and v is below the quotient of the reals iff v is below    *)
(* that quotient, or equal to it with a remainder left.                     *)
BelowFraction(hex, P) ==
  LET hi  == HexNum(SubSeq(hex, 1, 4))
      lo  == HexNum(SubSeq(hex, 5, 8))
      H   == P * 65536 - 1
      qh  == H \div 100
      low == (H % 100) * 65536 + (65536 - P)
      ql  == low \div 100
      rl  == low % 100
  IN IF P <= 0 THEN FALSE
     ELSE \/ hi < qh
          \/ hi = qh /\ lo < ql
          \/ hi = qh /\ lo = ql /\ rl # 0

\* C5: with a numeric stagingPercentage P and a staging id whose last 4 bytes
\* read as the big-endian unsigned integer v, the install passes the gate iff
\* v / max-uint32 < P / 100.
C5_StagingGate ==
  ( /\ gate # "none"
    /\ ~arg.stagingPercentage.isNull
    /\ IsIntegerText(arg.stagingPercentage.s)
    /\ ~stagingUserId.isNull )
  => ( gate = "pass"
       <=> BelowFraction(stagingUserId.s, IntegerValue(arg.stagingPercentage.s)) )

\* P = 20 and v = 0x33333333, where v / max-uint32 is exactly 20 / 100
C5_Witness ==
  /\ gate = "fail"
  /\ arg.stagingPercentage = Str(<<"2", "0">>)
  /\ stagingUserId = Str(<<"3", "3", "3", "3", "3", "3", "3", "3">>)

\* C6: with P = 0 every install fails the gate and with P = 100 every install
\* passes it, the one whose last 4 bytes are 0xFFFFFFFF included.
C6_StagingBoundaries ==
  (gate # "none" /\ ~stagingUserId.isNull)
  => /\ arg.stagingPercentage = Str(<<"0">>) => gate = "fail"
     /\ arg.stagingPercentage = Str(<<"1", "0", "0">>) => gate = "pass"

\* a text parseInt makes NaN of: no digit after the optional sign
IsNotANumber(s) ==
  LET body == IF Len(s) > 0 /\ s[1] \in {"+", "-"} THEN Tail(s) ELSE s
  IN Len(body) = 0 \/ body[1] \notin Digits

\* C7: the gate passes when the manifest has no stagingPercentage, when the
\* stagingPercentage is not numeric, and when the install has no staging user
\* id, whatever the other inputs are.
C7_StagingFailOpen ==
  ( /\ gate # "none"
    /\ \/ arg.stagingPercentage.isNull
       \/ IsNotANumber(arg.stagingPercentage.s)
       \/ stagingUserId.isNull )
  => gate = "pass"

\* no staging user id, in a 0 % rollout
C7_Witness ==
  /\ gate = "pass"
  /\ stagingUserId.isNull
  /\ arg.stagingPercentage = Str(<<"0">>)

(***************************************************************************)
(* The updater: the channel setter and the update check                    *)
(***************************************************************************)

\* the manifests the provider answers with in the update check
CheckManifests ==
  {UpdateInfo(V_1_0_0, Str(<<"1">>)), UpdateInfo(V_1_1_0, Null),
   UpdateInfo(V_1_1_0, Str(<<"1">>)), UpdateInfo(V_0_9_0, Null),
   UpdateInfo(V_0_9_0, Str(<<"1">>)), UpdateInfo(V_1_0, Null)}

Init ==
  /\ autoDownload \in BOOLEAN
  /\ allowDowngrade = FALSE
  /\ useSemver \in {"true", "false"}
  /\ currentVersionString \in {V_1_0_0, V_b42}
  /\ channel = NullChannel
  /\ provider \in {"none", "generic"}
  /\ stagingUserId = Str(<<"e", "0", "e", "d", "d", "2", "a", "1">>)
  /\ checkForUpdatesPromise = 0
  /\ updateInfoAndProvider = NoInfo
  /\ checks = <<>>
  /\ lastCall = NoCall
  /\ arg = UpdateInfo(<<>>, Null)
  /\ ret = NoResult
  /\ gate = "none"
  /\ platform = "linux"
  /\ cacheDir = EmptyCacheDir
  /\ helperFile = FALSE
  /\ tokens = <<>>
  /\ downloads = <<>>
  /\ lastResult = NoCheckResult
  /\ installCalled = FALSE
  /\ installs = <<>>
  /\ OtherIdle

\* mutant: the setter leaves allowDowngrade as it is
setChannelKeepDowngrade(current, downgrade, value) ==
  IF current.t # "null" /\ value.t # "string"
  THEN [threw |-> TRUE, code |-> "ERR_UPDATER_INVALID_CHANNEL",
        channel |-> current, allowDowngrade |-> downgrade]
  ELSE IF current.t # "null" /\ Len(value.s) = 0
  THEN [threw |-> TRUE, code |-> "ERR_UPDATER_INVALID_CHANNEL",
        channel |-> current, allowDowngrade |-> downgrade]
  ELSE [threw |-> FALSE, code |-> "", channel |-> value, allowDowngrade |-> downgrade]

\* set channel(value): the fields after the assignment, or the error thrown
setChannel(current, downgrade, value) ==
  IF current.t # "null" /\ value.t # "string"
  THEN [threw |-> TRUE, code |-> "ERR_UPDATER_INVALID_CHANNEL",
        channel |-> current, allowDowngrade |-> downgrade]
  ELSE IF current.t # "null" /\ Len(value.s) = 0
  THEN [threw |-> TRUE, code |-> "ERR_UPDATER_INVALID_CHANNEL",
        channel |-> current, allowDowngrade |-> downgrade]
  ELSE [threw |-> FALSE, code |-> "", channel |-> value, allowDowngrade |-> TRUE]

SetChannel(value) ==
  LET r == setChannel(channel, allowDowngrade, value)
  IN /\ channel' = r.channel
     /\ allowDowngrade' = r.allowDowngrade
     /\ lastCall' = [NoCall EXCEPT !.op = "setChannel", !.threw = r.threw,
                                   !.code = r.code]
     /\ UNCHANGED <<autoDownload, useSemver, currentVersionString, provider,
                    stagingUserId, checkVars, pureVars, downloadVars, otherVars>>

\* the caller assigns the public field allowDowngrade
SetAllowDowngrade(b) ==
  /\ allowDowngrade' = b
  /\ lastCall' = [NoCall EXCEPT !.op = "setAllowDowngrade"]
  /\ UNCHANGED <<autoDownload, useSemver, currentVersionString, channel, provider,
                 stagingUserId, checkVars, pureVars, downloadVars, otherVars>>

\* what doCheckForUpdates resolves with (an UpdateCheckResult) or rejects with
Pending == [state |-> "pending", code |-> "", unconfigured |-> FALSE,
            available |-> FALSE, downloadPromise |-> "undefined",
            cancellationToken |-> FALSE, stagingConsulted |-> FALSE]

(* A check: where doCheckForUpdates and the promise chain of checkForUpdates *)
(* stand (pc), the manifest received, the staging user id read, the outcome, *)
(* the events emitted for it in order, and how many times it called          *)
(* provider.getLatestVersion() and downloadUpdate().                         *)
NewCheck == [pc |-> "getProvider", info |-> UpdateInfo(<<>>, Null),
             stagingUserId |-> Null, outcome |-> Pending, events |-> <<>>,
             latestVersionCalls |-> 0, downloads |-> 0]

\* of a check whose promise has settled the model keeps how it settled
Settled(check) ==
  [NewCheck EXCEPT !.pc = "done", !.outcome = [Pending EXCEPT !.state = check.outcome.state]]

Unsettled == {p \in 1..Len(checks) : checks[p].pc # "done"}

\* mutant: every call starts a check of its own
checkForUpdatesAlwaysFresh(inFlight, started) ==
  [ret |-> started + 1, fresh |-> TRUE]

\* checkForUpdates(): the promise returned, and whether doCheckForUpdates is called
checkForUpdates(inFlight, started) ==
  IF inFlight # 0 THEN [ret |-> inFlight, fresh |-> FALSE]
  ELSE [ret |-> started + 1, fresh |-> TRUE]

CheckForUpdates ==
  LET r == checkForUpdates(checkForUpdatesPromise, Len(checks))
  IN /\ r.fresh => Len(checks) < MaxChecks
     /\ IF r.fresh
        THEN /\ checks' = Append(checks, NewCheck)
             /\ checkForUpdatesPromise' = r.ret
        ELSE UNCHANGED <<checks, checkForUpdatesPromise>>
     /\ lastCall' = [NoCall EXCEPT !.op = "checkForUpdates", !.ret = r.ret]
     /\ UNCHANGED <<fields, updateInfoAndProvider, pureVars, downloadVars, otherVars>>

\* variant: 'checking-for-update' is emitted before the provider is looked at
ProviderReadyEmitFirst(p) ==
  /\ checks[p].pc = "getProvider"
  /\ IF provider = "none"
     THEN checks' = [checks EXCEPT ![p].pc = "settled",
                                   ![p].events = Append(@, "checking-for-update"),
                                   ![p].outcome = [Pending EXCEPT !.state = "resolved",
                                                                  !.unconfigured = TRUE]]
     ELSE checks' = [checks EXCEPT ![p].pc = "getUpdateInfo",
                                   ![p].events = Append(@, "checking-for-update")]
  /\ lastCall' = NoCall
  /\ UNCHANGED <<fields, checkForUpdatesPromise, updateInfoAndProvider, pureVars, downloadVars, otherVars>>

\* doCheckForUpdates after `await this.getProvider()`
ProviderReady(p) ==
  /\ checks[p].pc = "getProvider"
  /\ IF provider = "none"
     THEN checks' = [checks EXCEPT ![p].pc = "settled",
                                   ![p].outcome = [Pending EXCEPT !.state = "resolved",
                                                                  !.unconfigured = TRUE]]
     ELSE checks' = [checks EXCEPT ![p].pc = "getUpdateInfo",
                                   ![p].events = Append(@, "checking-for-update")]
  /\ lastCall' = NoCall
  /\ UNCHANGED <<fields, checkForUpdatesPromise, updateInfoAndProvider, pureVars, downloadVars, otherVars>>

\* getUpdateInfoAndProvider after `await this.stagingUserIdPromise.value`
RequestLatestVersion(p) ==
  /\ checks[p].pc = "getUpdateInfo"
  /\ checks' = [checks EXCEPT ![p].pc = "getLatestVersion",
                              ![p].stagingUserId = stagingUserId,
                              ![p].latestVersionCalls = @ + 1]
  /\ lastCall' = NoCall
  /\ UNCHANGED <<fields, checkForUpdatesPromise, updateInfoAndProvider, pureVars, downloadVars, otherVars>>

\* variant: the manifest of a check is kept whether it is an update or not
LatestVersionArrivesKeepsLast(p, info) ==
  LET d == isUpdateAvailable(useSemver, currentVersionString, allowDowngrade, info,
                             checks[p].stagingUserId)
  IN /\ checks[p].pc = "getLatestVersion"
     /\ IF d.threw
        THEN /\ checks' = [checks EXCEPT ![p].pc = "settled", ![p].info = info,
                             ![p].outcome = [Pending EXCEPT !.state = "rejected",
                                                            !.code = d.code]]
             /\ UNCHANGED updateInfoAndProvider
        ELSE IF ~d.available
        THEN /\ checks' = [checks EXCEPT ![p].pc = "settled", ![p].info = info,
                             ![p].events = Append(@, "update-not-available"),
                             ![p].outcome = [Pending EXCEPT !.state = "resolved",
                                               !.stagingConsulted = d.stagingConsulted]]
             /\ updateInfoAndProvider' = [isNull |-> FALSE, info |-> info,
                                          stagingUserId |-> checks[p].stagingUserId]
        ELSE /\ updateInfoAndProvider' = [isNull |-> FALSE, info |-> info,
                                          stagingUserId |-> checks[p].stagingUserId]
             /\ checks' = [checks EXCEPT ![p].pc = "settled", ![p].info = info,
                             ![p].events = Append(@, "update-available"),
                             ![p].downloads = IF autoDownload THEN @ + 1 ELSE @,
                             ![p].outcome = [Pending EXCEPT !.state = "resolved",
                                               !.available = TRUE,
                                               !.cancellationToken = TRUE,
                                               !.downloadPromise =
                                                  IF autoDownload THEN "promise" ELSE "null",
                                               !.stagingConsulted = d.stagingConsulted]]
     /\ lastCall' = NoCall
     /\ UNCHANGED <<fields, checkForUpdatesPromise, pureVars, downloadVars, otherVars>>

\* doCheckForUpdates after `await provider.getLatestVersion()`: the decision, the
\* event, and with autoDownload the call of downloadUpdate
LatestVersionArrives(p, info) ==
  LET d == isUpdateAvailable(useSemver, currentVersionString, allowDowngrade, info,
                             checks[p].stagingUserId)
  IN /\ checks[p].pc = "getLatestVersion"
     /\ IF d.threw
        THEN /\ checks' = [checks EXCEPT ![p].pc = "settled", ![p].info = info,
                             ![p].outcome = [Pending EXCEPT !.state = "rejected",
                                                            !.code = d.code]]
             /\ UNCHANGED updateInfoAndProvider
        ELSE IF ~d.available
        THEN /\ checks' = [checks EXCEPT ![p].pc = "settled", ![p].info = info,
                             ![p].events = Append(@, "update-not-available"),
                             ![p].outcome = [Pending EXCEPT !.state = "resolved",
                                               !.stagingConsulted = d.stagingConsulted]]
             /\ UNCHANGED updateInfoAndProvider
        ELSE /\ updateInfoAndProvider' = [isNull |-> FALSE, info |-> info,
                                          stagingUserId |-> checks[p].stagingUserId]
             /\ checks' = [checks EXCEPT ![p].pc = "settled", ![p].info = info,
                             ![p].events = Append(@, "update-available"),
                             ![p].downloads = IF autoDownload THEN @ + 1 ELSE @,
                             ![p].outcome = [Pending EXCEPT !.state = "resolved",
                                               !.available = TRUE,
                                               !.cancellationToken = TRUE,
                                               !.downloadPromise =
                                                  IF autoDownload THEN "promise" ELSE "null",
                                               !.stagingConsulted = d.stagingConsulted]]
     /\ lastCall' = NoCall
     /\ UNCHANGED <<fields, checkForUpdatesPromise, pureVars, downloadVars, otherVars>>

\* provider.getLatestVersion() rejects
LatestVersionFails(p) ==
  /\ checks[p].pc = "getLatestVersion"
  /\ checks' = [checks EXCEPT ![p].pc = "settled",
                              ![p].outcome = [Pending EXCEPT !.state = "rejected",
                                                             !.code = "ERR_PROVIDER"]]
  /\ lastCall' = NoCall
  /\ UNCHANGED <<fields, checkForUpdatesPromise, updateInfoAndProvider, pureVars, downloadVars, otherVars>>

\* variant: the callbacks leave checkForUpdatesPromise as it is
CompletionHandlerKeepsPromise(p) ==
  /\ checks[p].pc = "settled"
  /\ checks' = [checks EXCEPT ![p].pc = "handled",
                              ![p].events = IF checks[p].outcome.state = "rejected"
                                            THEN Append(@, "error") ELSE @]
  /\ lastCall' = NoCall
  /\ UNCHANGED <<fields, checkForUpdatesPromise, updateInfoAndProvider, pureVars, downloadVars, otherVars>>

\* the .then / .catch callbacks of checkForUpdates: nullizePromise(), and for a
\* rejection the 'error' event; the promise returned to the callers is still pending
CompletionHandler(p) ==
  /\ checks[p].pc = "settled"
  /\ checkForUpdatesPromise' = 0
  /\ checks' = [checks EXCEPT ![p].pc = "handled",
                              ![p].events = IF checks[p].outcome.state = "rejected"
                                            THEN Append(@, "error") ELSE @]
  /\ lastCall' = NoCall
  /\ UNCHANGED <<fields, updateInfoAndProvider, pureVars, downloadVars, otherVars>>

\* the promise checkForUpdates returned resolves, or rejects with the rethrown error
PromiseSettles(p) ==
  /\ checks[p].pc = "handled"
  /\ checks' = [checks EXCEPT ![p] = Settled(checks[p])]
  /\ lastCall' = NoCall
  /\ UNCHANGED <<fields, checkForUpdatesPromise, updateInfoAndProvider, pureVars, downloadVars, otherVars>>

Next ==
  \/ \E value \in ChannelValues : SetChannel(value)
  \/ \E b \in BOOLEAN : SetAllowDowngrade(b)
  \/ CheckForUpdates
  \/ \E p \in 1..Len(checks) : ProviderReady(p)
  \/ \E p \in 1..Len(checks) : RequestLatestVersion(p)
  \/ \E p \in 1..Len(checks), info \in CheckManifests : LatestVersionArrives(p, info)
  \/ \E p \in 1..Len(checks) : LatestVersionFails(p)
  \/ \E p \in 1..Len(checks) : CompletionHandler(p)
  \/ \E p \in 1..Len(checks) : PromiseSettles(p)

Spec == Init /\ [][Next]_vars

(***************************************************************************)
(* Properties of the updater (under Spec)                                  *)
(***************************************************************************)

Count(seq, x) == Cardinality({i \in 1..Len(seq) : seq[i] = x})

\* the checks whose doCheckForUpdates has finished and left its outcome
Decided == {p \in 1..Len(checks) : checks[p].pc \in {"settled", "handled"}}

\* the checks whose completion callback has not run yet
InFlight == {p \in 1..Len(checks) :
               checks[p].pc \in {"getProvider", "getUpdateInfo", "getLatestVersion", "settled"}}

\* C1 as stated: a call made while the promise of an earlier call has not
\* settled returns that promise and starts no check of its own (hence no
\* further getLatestVersion call and no further 'checking-for-update').
C1_SingleFlightUntilSettled ==
  [][ (CheckForUpdates /\ Unsettled # {})
        => (lastCall'.ret \in Unsettled /\ checks' = checks) ]_vars

\* C1, amended: a call made while a check is in flight (from the call that
\* started it until its completion callback has run nullizePromise, that is
\* while checkForUpdatesPromise is not null) returns the promise of that check
\* and starts no check; at most one check is in flight, and a check calls
\* getLatestVersion and emits 'checking-for-update' at most once.
C1_SingleFlightWhileInFlight ==
  /\ [][ (CheckForUpdates /\ InFlight # {})
           => (lastCall'.ret \in InFlight /\ checks' = checks) ]_vars
  /\ [](/\ Cardinality(InFlight) <= 1
        /\ checkForUpdatesPromise # 0 <=> InFlight # {}
        /\ checkForUpdatesPromise # 0 => checkForUpdatesPromise \in InFlight
        /\ \A p \in 1..Len(checks) :
             /\ checks[p].latestVersionCalls <= 1
             /\ Count(checks[p].events, "checking-for-update") <= 1)

\* a call made while the request to the provider is outstanding got the
\* promise of the one check there is
C1_Witness ==
  /\ lastCall.op = "checkForUpdates"
  /\ Len(checks) = 1
  /\ lastCall.ret = 1
  /\ checks[1].pc = "getLatestVersion"
  /\ checks[1].latestVersionCalls = 1

\* C4: in semver mode, when the remote or the current version does not parse,
\* the check fails with ERR_UPDATER_INVALID_VERSION: the promise rejects,
\* neither 'update-available' nor 'update-not-available' is emitted and no
\* download is started.
C4_InvalidVersion ==
  \A p \in Decided :
    ( /\ checks[p].info \in CheckManifests
      /\ useSemver # "false"
      /\ \/ ~Parseable(checks[p].info.version, useSemver)
         \/ ~Parseable(currentVersionString, useSemver) )
    => /\ checks[p].outcome.state = "rejected"
       /\ checks[p].outcome.code = "ERR_UPDATER_INVALID_VERSION"
       /\ Count(checks[p].events, "update-available") = 0
       /\ Count(checks[p].events, "update-not-available") = 0
       /\ checks[p].downloads = 0
       /\ checks[p].outcome.downloadPromise = "undefined"
       /\ checks[p].pc = "handled" => Settled(checks[p]).outcome.state = "rejected"

\* the remote version 1.0 against the current version 1.0.0
C4_Witness ==
  \E p \in 1..Len(checks) :
    /\ checks[p].pc = "handled"
    /\ checks[p].info.version = V_1_0
    /\ currentVersionString = V_1_0_0
    /\ checks[p].outcome.code = "ERR_UPDATER_INVALID_VERSION"
    /\ checks[p].events = <<"checking-for-update", "error">>

\* the install is outside the rollout of the manifest
GateFails(info, id) ==
  /\ ~info.stagingPercentage.isNull
  /\ IsIntegerText(info.stagingPercentage.s)
  /\ ~id.isNull
  /\ ~BelowFraction(id.s, IntegerValue(info.stagingPercentage.s))

NotAvailable(check) ==
  /\ check.outcome.state = "resolved"
  /\ ~check.outcome.available
  /\ Count(check.events, "update-not-available") = 1
  /\ Count(check.events, "update-available") = 0
  /\ check.outcome.downloadPromise = "undefined"
  /\ check.downloads = 0

\* C8: in semver mode, when the versions differ and the install fails the
\* staging gate the check reports not available ('update-not-available', no
\* downloadPromise, no download), whatever the order of the versions and
\* allowDowngrade are; when the versions are equal the result is not available
\* and the gate is not consulted.
C8_StagingGateBlocks ==
  \A p \in Decided :
    ( /\ checks[p].info \in CheckManifests
      /\ useSemver # "false"
      /\ Parseable(checks[p].info.version, useSemver)
      /\ Parseable(currentVersionString, useSemver) )
    => /\ ( /\ Rank(checks[p].info.version) # Rank(currentVersionString)
            /\ GateFails(checks[p].info, checks[p].stagingUserId) )
          => NotAvailable(checks[p])
       /\ Rank(checks[p].info.version) = Rank(currentVersionString)
          => (NotAvailable(checks[p]) /\ ~checks[p].outcome.stagingConsulted)

\* 1.1.0 offered to 1 % of the installs, to an install outside of it
C8_Witness ==
  \E p \in Decided :
    /\ checks[p].info = UpdateInfo(V_1_1_0, Str(<<"1">>))
    /\ currentVersionString = V_1_0_0
    /\ useSemver = "true"
    /\ allowDowngrade
    /\ NotAvailable(checks[p])
    /\ checks[p].outcome.stagingConsulted

\* C9: after every successful assignment to the channel property
\* allowDowngrade is true, and it stays true until the caller assigns
\* allowDowngrade.
C9_ChannelEnablesDowngrade ==
  /\ []((lastCall.op = "setChannel" /\ ~lastCall.threw) => allowDowngrade)
  /\ [][ (allowDowngrade /\ ~allowDowngrade') => \E b \in BOOLEAN : SetAllowDowngrade(b) ]_vars

C9_Witness ==
  /\ lastCall.op = "setChannel"
  /\ ~lastCall.threw
  /\ channel = [t |-> "string", s |-> <<"b", "e", "t", "a">>]
  /\ allowDowngrade

\* C10: assigning a non-string value or an empty string to the channel
\* property throws ERR_UPDATER_INVALID_CHANNEL and leaves the stored channel
\* and allowDowngrade unchanged, whatever the stored channel was.
C10_BadChannelRejected ==
  [][ \A value \in ChannelValues :
        (SetChannel(value) /\ (value.t # "string" \/ Len(value.s) = 0))
        => /\ lastCall'.threw
           /\ lastCall'.code = "ERR_UPDATER_INVALID_CHANNEL"
           /\ channel' = channel
           /\ allowDowngrade' = allowDowngrade ]_vars

(***************************************************************************)
(* The download: downloadUpdate, executeDownload, the AppImage task        *)
(***************************************************************************)

\* the number of downloads, and of cancellation tokens, a behaviour creates
MaxDownloads == 2

\* the file the provider resolves for the update: its hash and its size
FileInfo == [sha512 |-> "sha512-new", size |-> 100]

\* the manifest found by the checks that precede a download
DownloadManifests == {UpdateInfo(V_1_1_0, Null)}

Platforms == {"linux", "darwin"}

\* what the cache directory holds when the updater starts: nothing, the
\* update downloaded before, a download of another version, one with another
\* hash, a file one byte longer than recorded, no file
InitialCaches ==
  {EmptyCacheDir,
   [record |-> CachedUpdateInfo(V_1_1_0, "sha512-new", 100), updateFile |-> 100],
   [record |-> CachedUpdateInfo(V_1_0_0, "sha512-new", 100), updateFile |-> 100],
   [record |-> CachedUpdateInfo(V_1_1_0, "sha512-old", 100), updateFile |-> 100],
   [record |-> CachedUpdateInfo(V_1_1_0, "sha512-new", 100), updateFile |-> 101],
   [record |-> CachedUpdateInfo(V_1_1_0, "sha512-new", 100), updateFile |-> 0]}

\* the errors a download ends with
ErrorKinds == {"CancellationError", "Error"}

\* DownloadedUpdateHelper.validateDownloadedPath: the cached file is reused when
\* the recorded version and hash are the requested ones and the file on disk
\* has the recorded size; any mismatch discards the cache entry
validateDownloadedPath(dir, version, sha512) ==
  IF dir.record.isNull THEN [cached |-> FALSE, discard |-> FALSE]
  ELSE IF /\ dir.record.version = version
          /\ dir.record.sha512 = sha512
          /\ dir.updateFile # 0
          /\ dir.updateFile = dir.record.size
  THEN [cached |-> TRUE, discard |-> FALSE]
  ELSE [cached |-> FALSE, discard |-> TRUE]

\* DownloadedUpdateHelper.setDownloadedFile: the record is persisted only when
\* isSaveCache is true
setDownloadedFile(dir, version, fileInfo, isSaveCache) ==
  IF isSaveCache
  THEN [dir EXCEPT !.record = CachedUpdateInfo(version, fileInfo.sha512, fileInfo.size)]
  ELSE dir

\* a request of the http executor or of the differential downloader is not
\* started once its cancellation token has been triggered
requestStarts(cancelled) == ~cancelled

\* variant: the full download is not given the token of the download
downloadOptionsNoToken(token) == 0

\* executeDownload: downloadOptions.cancellationToken, the token the task's
\* full download is given; 0 stands for no token
downloadOptionsToken(token) == token

\* variant: the fallback is taken nowhere
isDownloadFullNever(p) == FALSE

\* AppImageUpdater: isDownloadFull = process.platform === "linux"
isDownloadFull(p) == p = "linux"

\* variant: every error goes to the error channel
errorHandlerAll(e) == 1

\* downloadUpdate's errorHandler: the number of 'error' events dispatched for e
errorHandler(e) == IF e # "CancellationError" THEN 1 ELSE 0

\* variant: 'update-cancelled' is emitted for every failed download
updateCancelledAlways(e) == 1

\* executeDownload's catch: the number of 'update-cancelled' events emitted for e
updateCancelled(e) == IF e = "CancellationError" THEN 1 ELSE 0

Cancelled(token) == token # 0 /\ tokens[token]

(* A download: where downloadUpdate / executeDownload / the task stand (pc),   *)
(* its cancellation token, the version asked for, the size of its temp file   *)
(* (0: absent), the error caught, how the returned promise settled, and what  *)
(* it did: requests of the differential downloader, calls of                  *)
(* httpExecutor.download and requests they started, requests started after    *)
(* the token was triggered, whether the cached file was taken, whether the    *)
(* validation has just discarded the cache entry (until the task starts),     *)
(* whether the task ran, the isSaveCache passed to                            *)
(* setDownloadedFile, and the events emitted.                                  *)
NewDownload(token, version) ==
  [pc |-> "validate", token |-> token, version |-> version, temp |-> 0,
   error |-> "", state |-> "pending", cached |-> FALSE, discarded |-> FALSE,
   taskRan |-> FALSE,
   diffRequests |-> 0, diffFailed |-> FALSE, fullCalls |-> 0, fullRequests |-> 0,
   requestsAfterCancel |-> 0, isSaveCache |-> "none", renamed |-> FALSE,
   errorEvents |-> 0, cancelledEvents |-> 0, downloadedEvents |-> 0]

\* a downloadUpdate call that rejects before executeDownload is reached
RejectedDownload(e) ==
  [NewDownload(0, <<>>) EXCEPT !.pc = "done", !.state = "rejected", !.error = e,
                               !.errorEvents = errorHandler(e)]

\* variant: updateInfoAndProvider is not looked at before doDownloadUpdate
downloadUpdateUnchecked(ds, infoAndProvider, token, filesResolve) ==
  IF ~filesResolve THEN Append(ds, RejectedDownload("Error"))
  ELSE Append(ds, NewDownload(token, infoAndProvider.info.version))

\* downloadUpdate(cancellationToken): the downloads after the call.  It fails
\* without a check before it, and when doDownloadUpdate throws
downloadUpdate(ds, infoAndProvider, token, filesResolve) ==
  IF infoAndProvider.isNull
  THEN Append(ds, [RejectedDownload("Error") EXCEPT !.errorEvents = 1])
  ELSE IF ~filesResolve THEN Append(ds, RejectedDownload("Error"))
  ELSE Append(ds, NewDownload(token, infoAndProvider.info.version))

\* the task fails with e: executeDownload's catch is entered
taskFails(download, e) == [download EXCEPT !.pc = "clear", !.error = e]

\* the task after the differential download failed: the fallback to the full
\* download where isDownloadFull, chmod otherwise
fallback(download) ==
  LET failed == [download EXCEPT !.diffFailed = TRUE]
      token  == downloadOptionsToken(download.token)
  IN IF isDownloadFull(platform)
     THEN IF requestStarts(Cancelled(token))
          THEN [failed EXCEPT !.pc = "full", !.fullCalls = @ + 1,
                              !.fullRequests = @ + 1,
                              !.requestsAfterCancel =
                                 IF Cancelled(download.token) THEN @ + 1 ELSE @]
          ELSE taskFails([failed EXCEPT !.fullCalls = @ + 1], "CancellationError")
     ELSE [failed EXCEPT !.pc = "chmod"]

\* the temp files of the cache directory are deleted with its contents
ClearTemps(ds) == [i \in DOMAIN ds |-> [ds[i] EXCEPT !.temp = 0]]

InitDownload ==
  /\ autoDownload \in BOOLEAN
  /\ allowDowngrade = FALSE
  /\ useSemver = "true"
  /\ currentVersionString = V_1_0_0
  /\ channel = NullChannel
  /\ provider = "generic"
  /\ stagingUserId = Str(<<"e", "0", "e", "d", "d", "2", "a", "1">>)
  /\ checkForUpdatesPromise = 0
  /\ updateInfoAndProvider = NoInfo
  /\ checks = <<>>
  /\ lastCall = NoCall
  /\ arg = UpdateInfo(<<>>, Null)
  /\ ret = NoResult
  /\ gate = "none"
  /\ platform \in Platforms
  /\ cacheDir \in InitialCaches
  /\ helperFile = FALSE
  /\ tokens = <<>>
  /\ downloads = <<>>
  /\ lastResult = NoCheckResult
  /\ installCalled = FALSE
  /\ installs = <<>>
  /\ OtherIdle

checkStateVars == <<fields, checkForUpdatesPromise, checks, lastCall, pureVars,
                    otherVars>>

\* variant: the download is started whatever autoDownload is
UpdateFoundAlways(info, filesResolve) ==
  /\ isUpdateAvailable(useSemver, currentVersionString, allowDowngrade, info,
                       stagingUserId).available
  /\ Len(tokens) < MaxDownloads
  /\ Len(downloads) < MaxDownloads
  /\ updateInfoAndProvider' = [isNull |-> FALSE, info |-> info,
                               stagingUserId |-> stagingUserId]
  /\ tokens' = Append(tokens, FALSE)
  /\ downloads' = downloadUpdate(downloads, updateInfoAndProvider',
                                 Len(tokens) + 1, filesResolve)
  /\ lastResult' = [cancellationToken |-> Len(tokens) + 1,
                    downloadPromise |-> Len(downloads) + 1]
  /\ UNCHANGED <<checkStateVars, platform, cacheDir, helperFile, installCalled, installs>>

\* doCheckForUpdates when the update of the manifest is available: the update
\* is kept, a cancellation token is created and, with autoDownload,
\* downloadUpdate is called with it
UpdateFound(info, filesResolve) ==
  /\ isUpdateAvailable(useSemver, currentVersionString, allowDowngrade, info,
                       stagingUserId).available
  /\ Len(tokens) < MaxDownloads
  /\ autoDownload => Len(downloads) < MaxDownloads
  /\ updateInfoAndProvider' = [isNull |-> FALSE, info |-> info,
                               stagingUserId |-> stagingUserId]
  /\ tokens' = Append(tokens, FALSE)
  /\ IF autoDownload
     THEN /\ downloads' = downloadUpdate(downloads, updateInfoAndProvider',
                                         Len(tokens) + 1, filesResolve)
          /\ lastResult' = [cancellationToken |-> Len(tokens) + 1,
                            downloadPromise |-> Len(downloads) + 1]
     ELSE /\ downloads' = downloads
          /\ lastResult' = [cancellationToken |-> Len(tokens) + 1,
                            downloadPromise |-> 0]
  /\ UNCHANGED <<checkStateVars, platform, cacheDir, helperFile, installCalled, installs>>

\* downloadUpdate called by the application, with a token it holds or with none
DownloadUpdate(token, filesResolve) ==
  /\ Len(downloads) < MaxDownloads
  /\ token = 0 => Len(tokens) < MaxDownloads
  /\ tokens' = IF token = 0 /\ ~updateInfoAndProvider.isNull
               THEN Append(tokens, FALSE) ELSE tokens
  /\ downloads' = downloadUpdate(downloads, updateInfoAndProvider,
                                 IF token = 0 THEN Len(tokens) + 1 ELSE token,
                                 filesResolve)
  /\ UNCHANGED <<checkStateVars, updateInfoAndProvider, platform, cacheDir,
                 helperFile, lastResult, installCalled, installs>>

\* the application triggers a cancellation token of a download in progress
Cancel(token) ==
  /\ ~tokens[token]
  /\ \E d \in 1..Len(downloads) : downloads[d].token = token /\ downloads[d].pc # "done"
  /\ tokens' = [tokens EXCEPT ![token] = TRUE]
  /\ UNCHANGED <<checkStateVars, updateInfoAndProvider, platform, cacheDir,
                 helperFile, downloads, lastResult, installCalled, installs>>

\* variant: a cache entry that does not validate fails the download
ValidateDownloadedPathStrict(d) ==
  LET v == validateDownloadedPath(cacheDir, downloads[d].version, FileInfo.sha512)
  IN /\ downloads[d].pc = "validate"
     /\ IF v.cached
        THEN /\ downloads' = [downloads EXCEPT ![d].pc = "cached", ![d].cached = TRUE]
             /\ UNCHANGED <<cacheDir, helperFile>>
        ELSE IF v.discard
        THEN /\ cacheDir' = EmptyCacheDir
             /\ helperFile' = FALSE
             /\ downloads' = [ClearTemps(downloads) EXCEPT
                                ![d] = taskFails([@ EXCEPT !.discarded = TRUE], "Error")]
        ELSE /\ downloads' = [downloads EXCEPT ![d].pc = "task"]
             /\ UNCHANGED <<cacheDir, helperFile>>
     /\ UNCHANGED <<checkStateVars, updateInfoAndProvider, platform, tokens,
                    lastResult, installCalled, installs>>

\* executeDownload after `await validateDownloadedPath(...)`
ValidateDownloadedPath(d) ==
  LET v == validateDownloadedPath(cacheDir, downloads[d].version, FileInfo.sha512)
  IN /\ downloads[d].pc = "validate"
     /\ IF v.cached
        THEN /\ downloads' = [downloads EXCEPT ![d].pc = "cached", ![d].cached = TRUE]
             /\ UNCHANGED <<cacheDir, helperFile>>
        ELSE IF v.discard
        THEN /\ cacheDir' = EmptyCacheDir
             /\ helperFile' = FALSE
             /\ downloads' = [ClearTemps(downloads) EXCEPT ![d].pc = "task",
                                                           ![d].discarded = TRUE]
        ELSE /\ downloads' = [downloads EXCEPT ![d].pc = "task"]
             /\ UNCHANGED <<cacheDir, helperFile>>
     /\ UNCHANGED <<checkStateVars, updateInfoAndProvider, platform, tokens,
                    lastResult, installCalled, installs>>

downloadEnv == <<checkStateVars, updateInfoAndProvider, platform, tokens, lastResult,
                 installCalled, installs>>

\* the task starts: without the old file (APPIMAGE is not set) it throws, else
\* the differential download is started with the token of the download
Task(d, oldFile) ==
  LET download == [downloads[d] EXCEPT !.taskRan = TRUE, !.discarded = FALSE]
  IN /\ downloads[d].pc = "task"
     /\ downloads' =
          [downloads EXCEPT ![d] =
             IF ~oldFile THEN taskFails(download, "Error")
             ELSE IF requestStarts(Cancelled(download.token))
             THEN [download EXCEPT !.pc = "differential", !.diffRequests = @ + 1]
             ELSE fallback(download)]
     /\ UNCHANGED <<downloadEnv, cacheDir, helperFile>>

\* the differential download wrote the whole file
DifferentialDone(d) ==
  /\ downloads[d].pc = "differential"
  /\ ~Cancelled(downloads[d].token)
  /\ downloads' = [downloads EXCEPT ![d].pc = "chmod", ![d].temp = FileInfo.size]
  /\ UNCHANGED <<downloadEnv, cacheDir, helperFile>>

\* the differential download fails with e, having written nothing or a part of
\* the file: the catch of the task, and what the task does next
DifferentialFails(d, e, written) ==
  /\ downloads[d].pc = "differential"
  /\ e = "CancellationError" => Cancelled(downloads[d].token)
  /\ downloads' = [downloads EXCEPT ![d] = fallback([downloads[d] EXCEPT !.temp = written])]
  /\ UNCHANGED <<downloadEnv, cacheDir, helperFile>>

\* httpExecutor.download wrote the whole file
FullDownloadDone(d) ==
  /\ downloads[d].pc = "full"
  /\ ~Cancelled(downloads[d].token)
  /\ downloads' = [downloads EXCEPT ![d].pc = "chmod", ![d].temp = FileInfo.size]
  /\ UNCHANGED <<downloadEnv, cacheDir, helperFile>>

\* httpExecutor.download fails with e: the task fails with it
FullDownloadFails(d, e) ==
  /\ downloads[d].pc = "full"
  /\ e = "CancellationError" => Cancelled(downloads[d].token)
  /\ downloads' = [downloads EXCEPT ![d] = taskFails(downloads[d], e)]
  /\ UNCHANGED <<downloadEnv, cacheDir, helperFile>>

\* chmod(updateFile, 0o755) on the temp file: fails when there is no file
Chmod(d) ==
  /\ downloads[d].pc = "chmod"
  /\ downloads' = [downloads EXCEPT ![d] =
                     IF downloads[d].temp = 0 THEN taskFails(downloads[d], "Error")
                     ELSE [downloads[d] EXCEPT !.pc = "rename"]]
  /\ UNCHANGED <<downloadEnv, cacheDir, helperFile>>

\* variant: a failure of the rename is ignored
RenameIgnoreFailure(d, ok) ==
  /\ downloads[d].pc = "rename"
  /\ IF ok /\ downloads[d].temp # 0
     THEN /\ cacheDir' = [cacheDir EXCEPT !.updateFile = downloads[d].temp]
          /\ downloads' = [downloads EXCEPT ![d].pc = "save", ![d].temp = 0,
                                            ![d].renamed = TRUE]
     ELSE /\ downloads' = [downloads EXCEPT ![d].pc = "save"]
          /\ UNCHANGED cacheDir
  /\ UNCHANGED <<downloadEnv, helperFile>>

\* rename(tempUpdateFile, updateFile), which may fail
Rename(d, ok) ==
  /\ downloads[d].pc = "rename"
  /\ IF ok /\ downloads[d].temp # 0
     THEN /\ cacheDir' = [cacheDir EXCEPT !.updateFile = downloads[d].temp]
          /\ downloads' = [downloads EXCEPT ![d].pc = "save", ![d].temp = 0,
                                            ![d].renamed = TRUE]
     ELSE /\ downloads' = [downloads EXCEPT ![d] = taskFails(downloads[d], "Error")]
          /\ UNCHANGED cacheDir
  /\ UNCHANGED <<downloadEnv, helperFile>>

\* removeFileIfAny, first await: downloadedUpdateHelper.clear() deletes the
\* contents of the cache directory and forgets the downloaded file
Clear(d) ==
  /\ downloads[d].pc = "clear"
  /\ cacheDir' = EmptyCacheDir
  /\ helperFile' = FALSE
  /\ downloads' = [ClearTemps(downloads) EXCEPT ![d].pc = "unlink"]
  /\ UNCHANGED downloadEnv

\* removeFileIfAny, second await: unlink(updateFile); then 'update-cancelled'
\* for a cancellation, the rethrow, and downloadUpdate's errorHandler
Unlink(d) ==
  /\ downloads[d].pc = "unlink"
  /\ cacheDir' = [cacheDir EXCEPT !.updateFile = 0]
  /\ downloads' = [downloads EXCEPT
                     ![d].pc = "done", ![d].state = "rejected",
                     ![d].cancelledEvents = @ + updateCancelled(downloads[d].error),
                     ![d].errorEvents = @ + errorHandler(downloads[d].error)]
  /\ UNCHANGED <<downloadEnv, helperFile>>

\* variant: the record is written for a reused file as well
isSaveCacheAlways(cached) == TRUE

\* executeDownload: done(false) for the cached file, done(true) after a download
isSaveCache(cached) == ~cached

\* done(isSaveCache): setDownloadedFile, then 'update-downloaded'
Done(d) ==
  LET save == isSaveCache(downloads[d].cached)
  IN /\ downloads[d].pc \in {"cached", "save"}
     /\ cacheDir' = setDownloadedFile(cacheDir, downloads[d].version, FileInfo, save)
     /\ helperFile' = TRUE
     /\ downloads' = [downloads EXCEPT
                        ![d].pc = "done", ![d].state = "resolved",
                        ![d].isSaveCache = IF save THEN "true" ELSE "false",
                        ![d].downloadedEvents = @ + 1]
     /\ UNCHANGED downloadEnv

(***************************************************************************)
(* BaseUpdater.install                                                     *)
(***************************************************************************)

\* the number of install calls of a behaviour
MaxInstalls == 1

\* what doInstall does: it throws, or returns a promise that resolves or rejects
InstallOutcomes == {"throws", "resolves", "rejects"}

\* variant: a rejected installation is not reported
installedCatchNothing(outcome) == 0

\* install: `installed?.catch(e => this.dispatchError(e))`, the number of 'error'
\* events for the promise doInstall returned
installedCatch(outcome) == IF outcome = "rejects" THEN 1 ELSE 0

\* install(isSilent, isForceRunAfter) with ensureDownloadedInstaller
Install(outcome) ==
  /\ Len(installs) < MaxInstalls
  /\ IF installCalled
     THEN /\ installs' = Append(installs, [pc |-> "done", result |-> "ignored",
                                           errorEvents |-> 0])
          /\ UNCHANGED installCalled
     ELSE IF ~helperFile
     THEN /\ installs' = Append(installs, [pc |-> "done", result |-> "failed",
                                           errorEvents |-> 1])
          /\ UNCHANGED installCalled
     ELSE /\ installCalled' = TRUE
          /\ installs' = Append(installs,
                IF outcome = "throws"
                THEN [pc |-> "done", result |-> "failed", errorEvents |-> 1]
                ELSE [pc |-> "installing", result |-> outcome, errorEvents |-> 0])
  /\ UNCHANGED <<checkStateVars, updateInfoAndProvider, platform, cacheDir, helperFile,
                 tokens, downloads, lastResult>>

\* the promise doInstall returned settles
InstallSettles(i) ==
  /\ installs[i].pc = "installing"
  /\ installs' = [installs EXCEPT
                    ![i].pc = "done",
                    ![i].result = IF installs[i].result = "rejects" THEN "failed"
                                  ELSE "installed",
                    ![i].errorEvents = @ + installedCatch(installs[i].result)]
  /\ UNCHANGED <<checkStateVars, updateInfoAndProvider, platform, cacheDir, helperFile,
                 tokens, downloads, lastResult, installCalled>>

NextDownload ==
  \/ \E info \in DownloadManifests, filesResolve \in BOOLEAN : UpdateFound(info, filesResolve)
  \/ \E token \in 0..Len(tokens), filesResolve \in BOOLEAN : DownloadUpdate(token, filesResolve)
  \/ \E token \in 1..Len(tokens) : Cancel(token)
  \/ \E d \in 1..Len(downloads) : ValidateDownloadedPath(d)
  \/ \E d \in 1..Len(downloads), oldFile \in BOOLEAN : Task(d, oldFile)
  \/ \E d \in 1..Len(downloads) : DifferentialDone(d)
  \/ \E d \in 1..Len(downloads), e \in ErrorKinds, written \in {0, 50} :
        DifferentialFails(d, e, written)
  \/ \E d \in 1..Len(downloads) : FullDownloadDone(d)
  \/ \E d \in 1..Len(downloads), e \in ErrorKinds : FullDownloadFails(d, e)
  \/ \E d \in 1..Len(downloads) : Chmod(d)
  \/ \E d \in 1..Len(downloads), ok \in BOOLEAN : Rename(d, ok)
  \/ \E d \in 1..Len(downloads) : Clear(d)
  \/ \E d \in 1..Len(downloads) : Unlink(d)
  \/ \E d \in 1..Len(downloads) : Done(d)
  \/ \E outcome \in InstallOutcomes : Install(outcome)
  \/ \E i \in 1..Len(installs) : InstallSettles(i)

SpecDownload == InitDownload /\ [][NextDownload]_vars

(***************************************************************************)
(* Properties of the download (under SpecDownload)                         *)
(***************************************************************************)

Finished == {d \in 1..Len(downloads) : downloads[d].pc = "done"}

\* C11: a download that ends with a CancellationError rejects the promise of
\* downloadUpdate with that error, emits no 'error' event and emits
\* 'update-cancelled' exactly once; no other download emits 'update-cancelled'.
C11_CancellationIsNotAnError ==
  \A d \in 1..Len(downloads) :
    /\ (d \in Finished /\ downloads[d].error = "CancellationError")
         => /\ downloads[d].state = "rejected"
            /\ downloads[d].errorEvents = 0
            /\ downloads[d].cancelledEvents = 1
    /\ (d \notin Finished \/ downloads[d].error # "CancellationError")
         => downloads[d].cancelledEvents = 0

\* a download cancelled while its differential request was under way
C11_Witness ==
  \E d \in Finished :
    /\ downloads[d].error = "CancellationError"
    /\ downloads[d].diffRequests = 1
    /\ downloads[d].cancelledEvents = 1
    /\ tokens[downloads[d].token]

\* C12: when the task or the rename fails or is cancelled, at the moment the
\* promise of the download rejects the temp file and the update file do not
\* exist in the cache directory and the cache record has been cleared.
C12_CleanupBeforeRejection ==
  [][ \A d \in 1..Len(downloads) :
        Unlink(d) => /\ downloads'[d].state = "rejected"
                     /\ downloads'[d].temp = 0
                     /\ cacheDir'.updateFile = 0
                     /\ cacheDir'.record.isNull ]_vars

C14_CacheReuse ==
  /\ [](\A d \in 1..Len(downloads) :
          /\ downloads[d].cached
               => /\ ~downloads[d].taskRan
                  /\ downloads[d].temp = 0
                  /\ downloads[d].diffRequests = 0
                  /\ downloads[d].fullCalls = 0
                  /\ ~downloads[d].renamed
                  /\ downloads[d].pc \in {"cached", "done"}
                  /\ d \in Finished => /\ downloads[d].state = "resolved"
                                       /\ downloads[d].isSaveCache = "false"
                                       /\ downloads[d].downloadedEvents = 1
          /\ downloads[d].isSaveCache = "true"
               => /\ ~downloads[d].cached
                  /\ downloads[d].taskRan
                  /\ downloads[d].renamed
                  /\ downloads[d].diffRequests + downloads[d].fullRequests >= 1
                  /\ downloads[d].state = "resolved")
  /\ [][ \A d \in 1..Len(downloads) :
           /\ (Done(d) /\ downloads[d].cached) => cacheDir' = cacheDir
           /\ (Done(d) /\ cacheDir'.record # cacheDir.record)
                => downloads'[d].isSaveCache = "true" ]_vars

\* the update downloaded before is found in the cache and reported again
C14_Witness ==
  \E d \in Finished :
    /\ downloads[d].cached
    /\ downloads[d].isSaveCache = "false"
    /\ downloads[d].downloadedEvents = 1
    /\ cacheDir = [record |-> CachedUpdateInfo(V_1_1_0, "sha512-new", 100),
                   updateFile |-> 100]

\* C15: validateDownloadedPath gives the cached file only if the recorded
\* version is the requested one, the recorded hash the expected one and the
\* size on disk the recorded size; on any mismatch, of one byte of size too,
\* the cache entry is discarded and the download goes on to the task with no
\* error reported.
C15_CacheValidation ==
  [][ \A d \in 1..Len(downloads) :
        ValidateDownloadedPath(d)
          => IF /\ ~cacheDir.record.isNull
                /\ cacheDir.record.version = downloads[d].version
                /\ cacheDir.record.sha512 = FileInfo.sha512
                /\ cacheDir.updateFile = cacheDir.record.size
             THEN /\ downloads'[d].cached
                  /\ downloads'[d].pc = "cached"
                  /\ cacheDir' = cacheDir
             ELSE /\ ~downloads'[d].cached
                  /\ downloads'[d].pc = "task"
                  /\ downloads'[d].state = "pending"
                  /\ downloads'[d].errorEvents = 0
                  /\ cacheDir'.record = NoCachedUpdateInfo
                  /\ ~cacheDir.record.isNull => cacheDir' = EmptyCacheDir ]_vars

\* a cache entry was discarded and the download is about to start its task
C15_Witness ==
  \E d \in 1..Len(downloads) :
    /\ downloads[d].discarded
    /\ downloads[d].pc = "task"
    /\ cacheDir = EmptyCacheDir
    /\ downloads[d].errorEvents = 0

\* C16: on linux a failed differential download is followed by exactly one
\* call of the full download, writing the same temp file; a download that was
\* not cancelled starts exactly one full request; when the full download
\* fails its error is the error of the download, no other download is tried,
\* the promise rejects and an error that is no cancellation is reported once.
C16_DifferentialToFullFallback ==
  /\ [](platform = "linux" =>
          \A d \in 1..Len(downloads) :
            /\ downloads[d].fullCalls <= 1
            /\ downloads[d].fullRequests <= downloads[d].fullCalls
            /\ downloads[d].diffFailed <=> downloads[d].fullCalls = 1
            /\ (downloads[d].diffFailed /\ downloads[d].fullRequests = 0)
                 => Cancelled(downloads[d].token)
            /\ downloads[d].error # ""
                 => /\ downloads[d].pc \in {"clear", "unlink", "done"}
                    /\ downloads[d].state # "resolved"
                    /\ downloads[d].downloadedEvents = 0
            /\ (downloads[d].pc = "done" /\ downloads[d].error = "Error")
                 => /\ downloads[d].state = "rejected"
                    /\ downloads[d].errorEvents = 1)
  /\ [][ platform = "linux" =>
           \A d \in 1..Len(downloads) : \A e \in ErrorKinds :
             /\ \A written \in {0, 50} :
                  (DifferentialFails(d, e, written) /\ ~Cancelled(downloads[d].token))
                    => /\ downloads'[d].pc = "full"
                       /\ downloads'[d].fullRequests = 1
                       /\ downloads'[d].temp = written
             /\ FullDownloadFails(d, e)
                  => /\ downloads'[d].error = e
                     /\ downloads'[d].pc = "clear"
                     /\ downloads'[d].fullCalls = 1
                     /\ downloads'[d].fullRequests = 1 ]_vars

\* on linux the full download that followed a differential download, which had
\* written a part of the file, has failed
C16_Witness ==
  /\ platform = "linux"
  /\ \E d \in 1..Len(downloads) :
       /\ downloads[d].pc = "clear"
       /\ downloads[d].diffFailed
       /\ downloads[d].fullRequests = 1
       /\ downloads[d].temp = 50
       /\ downloads[d].error = "Error"

\* C17: on a platform other than linux a download whose differential download
\* failed never has its file renamed into place, never emits
\* 'update-downloaded' and never resolves its promise; once finished it is
\* rejected.
C17_NoSilentFallback ==
  platform # "linux" =>
    \A d \in 1..Len(downloads) :
      downloads[d].diffFailed
        => /\ ~downloads[d].renamed
           /\ downloads[d].downloadedEvents = 0
           /\ downloads[d].state # "resolved"
           /\ d \in Finished => downloads[d].state = "rejected"

\* C18: once the cancellation token of a download has been triggered the
\* download starts no request, neither of the differential downloader nor of
\* the full download; a differential download that ends with a
\* CancellationError is followed by no request of a full download.
C18_NoNewWorkAfterCancellation ==
  /\ [](\A d \in 1..Len(downloads) : downloads[d].requestsAfterCancel = 0)
  /\ [][ \A d \in 1..Len(downloads) :
           /\ Cancelled(downloads[d].token)
                => /\ downloads'[d].diffRequests = downloads[d].diffRequests
                   /\ downloads'[d].fullRequests = downloads[d].fullRequests
           /\ \A written \in {0, 50} :
                DifferentialFails(d, "CancellationError", written)
                  => /\ downloads'[d].fullRequests = 0
                     /\ downloads'[d].pc # "full" ]_vars

\* on linux a differential download was ended by the cancellation, and the
\* full download was called and started no request
C18_Witness ==
  /\ platform = "linux"
  /\ \E d \in 1..Len(downloads) :
       /\ Cancelled(downloads[d].token)
       /\ downloads[d].diffRequests = 1
       /\ downloads[d].diffFailed
       /\ downloads[d].fullCalls = 1
       /\ downloads[d].fullRequests = 0
       /\ downloads[d].error = "CancellationError"

\* the downloads whose promise has not settled
DownloadsInFlight == {d \in 1..Len(downloads) : downloads[d].pc # "done"}

\* C19: at most one download of the updater is in flight; a downloadUpdate, or
\* a check with autoDownload, made while a download has not settled starts no
\* second download.
C19_OneDownloadAtATime ==
  /\ [](Cardinality(DownloadsInFlight) <= 1)
  /\ [][ DownloadsInFlight # {} => DownloadsInFlight' \subseteq DownloadsInFlight ]_vars

\* C20: a check that finds an update returns a new cancellation token; with
\* autoDownload it calls downloadUpdate with that token and returns its promise
\* as downloadPromise; without autoDownload downloadPromise is null and no
\* download is started.  A download is started by such a check or by a call of
\* downloadUpdate, and by nothing else.
C20_AutoDownloadGating ==
  [][ /\ \A info \in DownloadManifests : \A filesResolve \in BOOLEAN :
           UpdateFound(info, filesResolve)
             => /\ lastResult'.cancellationToken = Len(tokens) + 1
                /\ Len(tokens') = Len(tokens) + 1
                /\ ~tokens'[lastResult'.cancellationToken]
                /\ IF autoDownload
                   THEN /\ Len(downloads') = Len(downloads) + 1
                        /\ lastResult'.downloadPromise = Len(downloads')
                        /\ filesResolve
                             => /\ downloads'[Len(downloads')].token
                                     = lastResult'.cancellationToken
                                /\ downloads'[Len(downloads')].pc = "validate"
                   ELSE /\ lastResult'.downloadPromise = 0
                        /\ downloads' = downloads
      /\ Len(downloads') # Len(downloads)
           => \/ /\ autoDownload
                 /\ \E info \in DownloadManifests, filesResolve \in BOOLEAN :
                      UpdateFound(info, filesResolve)
              \/ \E token \in 0..Len(tokens), filesResolve \in BOOLEAN :
                   DownloadUpdate(token, filesResolve) ]_vars

\* with autoDownload the check returned the promise of a download that runs
\* with the token of the result
C20_Witness ==
  /\ autoDownload
  /\ lastResult.downloadPromise \in 1..Len(downloads)
  /\ downloads[lastResult.downloadPromise].token = lastResult.cancellationToken
  /\ downloads[lastResult.downloadPromise].pc = "task"

(***************************************************************************)
(* Properties of the update check, continued (under Spec)                  *)
(***************************************************************************)

\* the events that end the protocol of a check
CheckEndEvents == {"update-available", "update-not-available", "error"}

UpdaterIdle ==
  /\ autoDownload = TRUE
  /\ allowDowngrade = FALSE
  /\ useSemver = "true"
  /\ currentVersionString = V_1_0_0
  /\ channel = NullChannel
  /\ provider = "generic"
  /\ stagingUserId = Null
  /\ checkForUpdatesPromise = 0
  /\ updateInfoAndProvider = NoInfo
  /\ checks = <<>>
  /\ lastCall = NoCall
  /\ arg = UpdateInfo(<<>>, Null)
  /\ ret = NoResult
  /\ gate = "none"
  /\ platform = "linux"
  /\ cacheDir = EmptyCacheDir
  /\ helperFile = FALSE
  /\ tokens = <<>>
  /\ downloads = <<>>
  /\ lastResult = NoCheckResult
  /\ installCalled = FALSE
  /\ installs = <<>>

updaterVars == <<fields, checkVars, lastCall, pureVars, downloadVars>>

\* the number of times a behaviour asks for the staging user id
MaxIdReads == 3

\* the states the id file is found in
IdFiles ==
  {IdFile("null", "", FALSE), IdFile("missing", "", FALSE),
   IdFile("unreadable", "", FALSE), IdFile("text", "not-a-uuid", FALSE),
   IdFile("text", "uuid-a", TRUE), IdFile("text", "uuid-b", TRUE)}

\* the ids UUID.v5(randomBytes(4096), UUID.OID) may give
NewIds == {"uuid-x", "uuid-y"}

\* variant: the id is computed again every time it is asked for
LazyValueAlways(lazy) == [lazy EXCEPT !.pc = "reading"]

\* Lazy.value: the creator is called at the first access, and its promise kept
LazyValue(lazy) == IF lazy.pc = "unset" THEN [lazy EXCEPT !.pc = "reading"] ELSE lazy

InitStaging ==
  /\ UpdaterIdle
  /\ PlanIdle
  /\ ProviderIdle
  /\ HelperIdle
  /\ QuitIdle
  /\ PublishIdle
  /\ PackIdle
  /\ idFile \in IdFiles
  /\ stagingUserIdPromise = LazyUnset
  /\ idWaiters = 0
  /\ usedIds = <<>>
  /\ MoreIdle

\* getUpdateInfoAndProvider: `await this.stagingUserIdPromise.value`
AwaitStagingUserId ==
  /\ idWaiters + Len(usedIds) < MaxIdReads
  /\ idWaiters' = idWaiters + 1
  /\ stagingUserIdPromise' = LazyValue(stagingUserIdPromise)
  /\ UNCHANGED <<updaterVars, moreVars, helperVars, quitVars, publishVars, packVars,
                 planVars, providerVars, idFile, usedIds>>

\* getOrCreateStagingUserId up to the id it will return: no file path gives
\* null; a file read with a valid UUID gives its text; otherwise a new id is
\* generated, and written next
ReadFile(newId) ==
  /\ stagingUserIdPromise.pc = "reading"
  /\ stagingUserIdPromise' =
       IF idFile.kind = "null"
       THEN [stagingUserIdPromise EXCEPT !.pc = "resolved", !.id = "null"]
       ELSE IF idFile.kind = "text" /\ idFile.valid
       THEN [stagingUserIdPromise EXCEPT !.pc = "resolved", !.id = idFile.text]
       ELSE [stagingUserIdPromise EXCEPT !.pc = "writing", !.id = newId,
                                        !.generated = @ + 1]
  /\ UNCHANGED <<updaterVars, moreVars, helperVars, quitVars, publishVars, packVars,
                 planVars, providerVars, idFile, idWaiters, usedIds>>

\* `await outputFile(file, id)`, whose failure is logged and ignored
OutputFile(ok) ==
  /\ stagingUserIdPromise.pc = "writing"
  /\ idFile' = IF ok THEN IdFile("text", stagingUserIdPromise.id, TRUE) ELSE idFile
  /\ stagingUserIdPromise' = [stagingUserIdPromise EXCEPT !.pc = "resolved",
                                                         !.writes = @ + 1]
  /\ UNCHANGED <<updaterVars, moreVars, helperVars, quitVars, publishVars, packVars,
                 planVars, providerVars, idWaiters, usedIds>>

\* a check goes on with the id the promise resolved to
StagingUserIdArrives ==
  /\ stagingUserIdPromise.pc = "resolved"
  /\ idWaiters > 0
  /\ idWaiters' = idWaiters - 1
  /\ usedIds' = Append(usedIds, stagingUserIdPromise.id)
  /\ UNCHANGED <<updaterVars, moreVars, helperVars, quitVars, publishVars, packVars,
                 planVars, providerVars, idFile, stagingUserIdPromise>>

NextStaging ==
  \/ AwaitStagingUserId
  \/ \E newId \in NewIds : ReadFile(newId)
  \/ \E ok \in BOOLEAN : OutputFile(ok)
  \/ StagingUserIdArrives

SpecStaging == InitStaging /\ [][NextStaging]_vars

\* C23: all checks of an updater go on with the same staging user id; a valid
\* UUID in the id file is the id returned, and the file is not written then;
\* an id is generated at most once, only when the file is missing, unreadable
\* or holds an invalid text, and only a generated id is written.
C23_StableStagingId ==
  /\ [](/\ \A i, j \in 1..Len(usedIds) : usedIds[i] = usedIds[j]
        /\ stagingUserIdPromise.generated <= 1
        /\ stagingUserIdPromise.writes <= stagingUserIdPromise.generated
        /\ (stagingUserIdPromise.pc = "resolved" /\ idFile.kind = "text" /\ idFile.valid)
             => stagingUserIdPromise.id = idFile.text)
  /\ [][ /\ (idFile.kind = "text" /\ idFile.valid) => idFile' = idFile
         /\ stagingUserIdPromise'.generated # stagingUserIdPromise.generated
              => idFile.kind \in {"missing", "unreadable"}
                 \/ (idFile.kind = "text" /\ ~idFile.valid)
         /\ idFile' # idFile
              => /\ stagingUserIdPromise.generated = 1
                 /\ idFile' = IdFile("text", stagingUserIdPromise.id, TRUE) ]_vars

\* three checks went on with the id generated for a missing file that could
\* not be written
C23_Witness ==
  /\ Len(usedIds) = MaxIdReads
  /\ idFile.kind = "missing"
  /\ stagingUserIdPromise.generated = 1
  /\ stagingUserIdPromise.writes = 1

(***************************************************************************)
(* The range-request planner                                               *)
(***************************************************************************)

\* the number of blocks of a file
MaxBlocks == 3

\* the checksums of blocks: "t" is the short block that ends a file
Checksums == {"a", "b", "t"}

\* the size of the block with checksum c: blocks have one size but the last
BlockSize(c) == IF c = "t" THEN 1 ELSE 2

\* the block lists of a file: only the last block may be the short one
BlockLists ==
  UNION {{b \in [1..n -> Checksums] : \A i \in 1..(n - 1) : b[i] # "t"} : n \in 0..MaxBlocks}

\* the ceilings of the number of range requests
RequestCeilings == {1, 2}

\* the byte offset of block i: the sum of the sizes of the blocks before it
RECURSIVE BlockOffset(_, _)
BlockOffset(blocks, i) ==
  IF i <= 1 THEN 0 ELSE BlockOffset(blocks, i - 1) + BlockSize(blocks[i - 1])

\* the byte length of a file
FileLength(blocks) == BlockOffset(blocks, Len(blocks) + 1)

\* the old block to copy for new block i: the one at the same index if its
\* checksum is the same, else the first with that checksum, else 0
MatchingOldBlock(old, new, i) ==
  IF i <= Len(old) /\ old[i] = new[i] THEN i
  ELSE IF \E j \in 1..Len(old) : old[j] = new[i]
  THEN CHOOSE j \in 1..Len(old) :
         old[j] = new[i] /\ \A k \in 1..(j - 1) : old[k] # new[i]
  ELSE 0

Operation(kind, start, end) == [kind |-> kind, start |-> start, end |-> end]

\* emit/extend: an operation of the kind of the last one that starts where the
\* last one ends extends it
Emit(ops, op) ==
  IF /\ Len(ops) > 0
     /\ ops[Len(ops)].kind = op.kind
     /\ ops[Len(ops)].end = op.start
  THEN [ops EXCEPT ![Len(ops)].end = op.end]
  ELSE Append(ops, op)

\* the walk of the new blocks from block i on
RECURSIVE WalkNewBlocks(_, _, _, _)
WalkNewBlocks(old, new, i, ops) ==
  IF i > Len(new) THEN ops
  ELSE LET j == MatchingOldBlock(old, new, i)
           op == IF j = 0
                 THEN Operation("download", BlockOffset(new, i), BlockOffset(new, i + 1))
                 ELSE Operation("copy", BlockOffset(old, j), BlockOffset(old, j + 1))
       IN WalkNewBlocks(old, new, i + 1, Emit(ops, op))

\* the indexes of the download operations of a plan
Downloads(ops) == {i \in 1..Len(ops) : ops[i].kind = "download"}

\* variant: two download operations are merged and the copies between them kept
MergeAcrossKeepCopies(ops, i, j) ==
  SubSeq(ops, 1, i - 1)
    \o <<Operation("download", ops[i].start, ops[j].end)>>
    \o SubSeq(ops, i + 1, j - 1)
    \o SubSeq(ops, j + 1, Len(ops))

\* the download operations i and j are merged into one, which downloads the
\* ranges of the copies between them as well
MergeAcross(ops, i, j) ==
  SubSeq(ops, 1, i - 1)
    \o <<Operation("download", ops[i].start, ops[j].end)>>
    \o SubSeq(ops, j + 1, Len(ops))

\* while there are more download operations than the ceiling allows, the first
\* two are merged
RECURSIVE LimitRequests(_, _)
LimitRequests(ops, ceiling) ==
  IF Cardinality(Downloads(ops)) <= ceiling THEN ops
  ELSE LET i == CHOOSE i \in Downloads(ops) : \A k \in Downloads(ops) : i <= k
           j == CHOOSE j \in Downloads(ops) \ {i} :
                  \A k \in Downloads(ops) \ {i} : j <= k
       IN LimitRequests(MergeAcross(ops, i, j), ceiling)

\* the planner
computeOperations(old, new, ceiling) ==
  LimitRequests(WalkNewBlocks(old, new, 1, <<>>), ceiling)

InitPlan ==
  /\ UpdaterIdle
  /\ StagingIdle
  /\ ProviderIdle
  /\ HelperIdle
  /\ QuitIdle
  /\ PublishIdle
  /\ PackIdle
  /\ oldBlocks \in BlockLists
  /\ newBlocks \in BlockLists
  /\ maxRequests \in RequestCeilings
  /\ plan = NoPlan
  /\ MoreIdle

BuildPlan ==
  /\ ~plan.done
  /\ plan' = [done |-> TRUE,
              operations |-> computeOperations(oldBlocks, newBlocks, maxRequests)]
  /\ UNCHANGED <<updaterVars, moreVars, helperVars, quitVars, publishVars, packVars,
                 stagingVars, providerVars, oldBlocks, newBlocks,
                 maxRequests>>

NextPlan == BuildPlan

SpecPlan == InitPlan /\ [][NextPlan]_vars

\* the destination offset at which operation i of a plan starts
RECURSIVE DestinationOffset(_, _)
DestinationOffset(ops, i) ==
  IF i <= 1 THEN 0
  ELSE DestinationOffset(ops, i - 1) + (ops[i - 1].end - ops[i - 1].start)

\* C24: the operations of a plan, in order, cover [0, totalNewLength) once:
\* every operation is a non-empty range, a download operation is the range of
\* the new file that starts at the destination offset reached, a copy
\* operation is a range inside the old file, and the lengths add up to the
\* length of the new file; no new blocks give the empty plan.
C24_PlannerCoverage ==
  plan.done =>
    LET ops == plan.operations
    IN /\ \A i \in 1..Len(ops) :
            /\ ops[i].start < ops[i].end
            /\ ops[i].kind = "download" => ops[i].start = DestinationOffset(ops, i)
            /\ ops[i].kind = "copy" => ops[i].end <= FileLength(oldBlocks)
       /\ DestinationOffset(ops, Len(ops) + 1) = FileLength(newBlocks)
       /\ newBlocks = <<>> => ops = <<>>

\* a plan in which downloads were merged across a copy
C24_Witness ==
  /\ plan.done
  /\ oldBlocks = <<"a">>
  /\ newBlocks = <<"b", "a", "t">>
  /\ maxRequests = 1
  /\ plan.operations = <<Operation("download", 0, 5)>>

(***************************************************************************)
(* The provider: createClient, setFeedURL, getProvider                     *)
(***************************************************************************)

\* the number of getProvider calls of a behaviour
MaxGetProvider == 3

S3Host == <<"s", "3", ".", "a", "m", "a", "z", "o", "n", "a", "w", "s", ".", "c", "o", "m">>

PlainUrl == <<"h", "t", "t", "p", "s", ":", "/", "/", "e", "x", "a", "m", "p", "l", "e", ".", "c", "o", "m", "/", "u">>

S3Url == <<"h", "t", "t", "p", "s", ":", "/", "/", "b", ".", "s", "3", ".", "a", "m", "a", "z", "o", "n", "a", "w", "s", ".", "c", "o", "m", "/", "u">>

NearS3Url == <<"h", "t", "t", "p", "s", ":", "/", "/", "s", "3", ".", "a", "m", "a", "z", "o", "n", "a", "w", "s", ".", "c", "o", "/", "u">>

Urls == {PlainUrl, S3Url, NearS3Url}

\* String.prototype.includes
Includes(s, part) ==
  \E i \in 1..(Len(s) - Len(part) + 1) : SubSeq(s, i, i + Len(part) - 1) = part

isUrlProbablySupportMultiRangeRequests(url) == ~Includes(url, S3Host)

\* the configurations a file or a caller may give
Configurations ==
  {PublishConfiguration("string", "", PlainUrl, "unset", FALSE)}
    \cup {PublishConfiguration("object", "generic", url, flag, FALSE) :
            url \in Urls, flag \in {"unset", "true", "false"}}
    \cup {PublishConfiguration("object", "custom", <<>>, "unset", b) : b \in BOOLEAN}
    \cup {PublishConfiguration("object", "github", <<>>, "unset", FALSE)}

\* what a config file may hold: a configuration, nothing (null), or it is missing
ConfigFiles ==
  Configurations \cup {NoConfiguration,
                       PublishConfiguration("missing", "", <<>>, "unset", FALSE)}

Rejected(code) == [state |-> "rejected", code |-> code, provider |-> NoProvider]

Resolved(p) == [state |-> "resolved", code |-> "", provider |-> p]

\* the runtime option createClient gives a GenericProvider
genericIsUseMultipleRangeRequest(options) ==
  options.useMultipleRangeRequest # "false"
    /\ isUrlProbablySupportMultiRangeRequests(options.url)

\* createClient(data, updater, runtimeOptions): the provider returned or the
\* error thrown; runtimeOptions.isUseMultipleRangeRequest is true
createClient(data) ==
  IF data.t = "string"
  THEN Rejected("ERR_UPDATER_INVALID_PROVIDER_CONFIGURATION")
  ELSE IF data.provider = "generic"
  THEN Resolved([kind |-> "GenericProvider", options |-> data,
                 isUseMultipleRangeRequest |-> genericIsUseMultipleRangeRequest(data)])
  ELSE IF data.provider = "custom"
  THEN IF ~data.updateProvider
       THEN Rejected("ERR_UPDATER_INVALID_PROVIDER_CONFIGURATION")
       ELSE Resolved([kind |-> "custom", options |-> data,
                      isUseMultipleRangeRequest |-> TRUE])
  ELSE Rejected("ERR_UPDATER_UNSUPPORTED_PROVIDER")

\* loadUpdateConfig: readFile and load
loadUpdateConfig(file) ==
  IF file.t = "missing" THEN [state |-> "rejected", code |-> "ENOENT", data |-> NoConfiguration]
  ELSE [state |-> "resolved", code |-> "", data |-> file]

\* configOnDisk.value.then(it => it == null ? null : createClient(it, ...))
clientFromConfig(loaded) ==
  IF loaded.state = "rejected" THEN Rejected(loaded.code)
  ELSE IF loaded.data.t = "null" THEN Resolved(NoProvider)
  ELSE createClient(loaded.data)

InitProvider ==
  /\ UpdaterIdle
  /\ StagingIdle
  /\ PlanIdle
  /\ HelperIdle
  /\ QuitIdle
  /\ PublishIdle
  /\ PackIdle
  /\ configFile \in ConfigFiles
  /\ configOnDisk = NotLoaded
  /\ clientPromise = NoPromise
  /\ providerCalls = [gets |-> 0, reads |-> 0, creates |-> 0]
  /\ providerResult = NoPromise
  /\ MoreIdle

\* variant: a rejected clientPromise is not kept
getProviderRetry(promise) == promise.state \in {"null", "rejected"}

\* getProvider: `if (this.clientPromise == null)`
getProviderCreates(promise) == promise.state = "null"

\* getProvider, called by a check: the client promise is created from the
\* config on disk when there is none, and awaited
GetProvider ==
  LET fresh  == getProviderCreates(clientPromise)
      loaded == IF configOnDisk.loaded THEN configOnDisk.data
                ELSE loadUpdateConfig(configFile)
      client == IF fresh THEN clientFromConfig(loaded) ELSE clientPromise
  IN /\ providerCalls.gets < MaxGetProvider
     /\ clientPromise' = client
     /\ configOnDisk' = IF fresh THEN [loaded |-> TRUE, data |-> loaded] ELSE configOnDisk
     /\ providerCalls' =
          [gets |-> providerCalls.gets + 1,
           reads |-> IF fresh /\ ~configOnDisk.loaded
                     THEN providerCalls.reads + 1 ELSE providerCalls.reads,
           creates |-> IF fresh /\ loaded.state = "resolved" /\ loaded.data.t # "null"
                       THEN providerCalls.creates + 1 ELSE providerCalls.creates]
     /\ providerResult' = client
     /\ UNCHANGED <<updaterVars, moreVars, helperVars, quitVars, publishVars, packVars,
                 stagingVars, planVars, configFile>>

\* setFeedURL(options): a string gives a GenericProvider of that url; otherwise
\* createClient, whose error leaves clientPromise as it is
SetFeedURL(options) ==
  LET r == IF options.t = "string"
           THEN Resolved([kind |-> "GenericProvider",
                          options |-> PublishConfiguration("object", "generic",
                                                           options.url, "unset", FALSE),
                          isUseMultipleRangeRequest |->
                             isUrlProbablySupportMultiRangeRequests(options.url)])
           ELSE createClient(options)
  IN /\ clientPromise' = IF r.state = "resolved" THEN r ELSE clientPromise
     /\ providerResult' = r
     /\ UNCHANGED <<updaterVars, moreVars, helperVars, quitVars, publishVars, packVars,
                 stagingVars, planVars, configFile, configOnDisk,
                    providerCalls>>

\* set updateConfigPath(value)
SetUpdateConfigPath ==
  /\ clientPromise' = NoPromise
  /\ configOnDisk' = NotLoaded
  /\ providerResult' = NoPromise
  /\ UNCHANGED <<updaterVars, moreVars, helperVars, quitVars, publishVars, packVars,
                 stagingVars, planVars, configFile, providerCalls>>

\* the config file is replaced on disk
EditConfigFile(file) ==
  /\ file # configFile
  /\ configFile' = file
  /\ providerResult' = NoPromise
  /\ UNCHANGED <<updaterVars, moreVars, helperVars, quitVars, publishVars, packVars,
                 stagingVars, planVars, configOnDisk, clientPromise,
                 providerCalls>>

NextProvider ==
  \/ GetProvider
  \/ \E options \in Configurations : SetFeedURL(options)
  \/ SetUpdateConfigPath
  \/ \E file \in ConfigFiles : EditConfigFile(file)

SpecProvider == InitProvider /\ [][NextProvider]_vars

\* the providers a behaviour has in hand: the one of clientPromise and the one
\* the last call gave
ProvidersSeen ==
  {r.provider : r \in {q \in {clientPromise, providerResult} : q.state = "resolved"}}

\* C25: the isUseMultipleRangeRequest of a generic provider is the configured
\* useMultipleRangeRequest when that is set, and otherwise true iff the url
\* does not contain "s3.amazonaws.com".
C25_MultiRangeFlag ==
  \A p \in ProvidersSeen :
    p.kind = "GenericProvider"
      => p.isUseMultipleRangeRequest
           = IF p.options.useMultipleRangeRequest # "unset"
             THEN p.options.useMultipleRangeRequest = "true"
             ELSE ~Includes(p.options.url, S3Host)

\* the error createClient throws for a configuration, "" when it throws none
ExpectedCode(data) ==
  IF data.t = "string" THEN "ERR_UPDATER_INVALID_PROVIDER_CONFIGURATION"
  ELSE IF data.provider = "custom" /\ ~data.updateProvider
  THEN "ERR_UPDATER_INVALID_PROVIDER_CONFIGURATION"
  ELSE IF data.provider \notin {"generic", "custom"}
  THEN "ERR_UPDATER_UNSUPPORTED_PROVIDER"
  ELSE ""

\* C27: createClient throws ERR_UPDATER_INVALID_PROVIDER_CONFIGURATION for a
\* string and for a custom provider without updateProvider, and
\* ERR_UPDATER_UNSUPPORTED_PROVIDER for a provider that is neither generic nor
\* custom; while clientPromise is rejected, getProvider rejects with the same
\* error, reads no config and creates no provider, and clientPromise changes
\* only by setFeedURL or by an assignment of updateConfigPath.
C27_BadProviderConfigurationIsFatal ==
  [][ /\ (GetProvider /\ clientPromise.state = "null" /\ ~configOnDisk.loaded
            /\ configFile \in Configurations)
         => /\ providerResult'.code = ExpectedCode(configFile)
            /\ providerResult'.state
                 = IF ExpectedCode(configFile) = "" THEN "resolved" ELSE "rejected"
      /\ \A options \in Configurations :
           (SetFeedURL(options) /\ options.t = "object")
             => providerResult'.code = ExpectedCode(options)
      /\ (GetProvider /\ clientPromise.state = "rejected")
           => /\ providerResult' = clientPromise
              /\ clientPromise' = clientPromise
              /\ providerCalls'.reads = providerCalls.reads
              /\ providerCalls'.creates = providerCalls.creates
      /\ (clientPromise.state = "rejected" /\ clientPromise' # clientPromise)
           => \/ SetUpdateConfigPath
              \/ \E options \in Configurations : SetFeedURL(options) ]_vars

\* the provider of the config on disk is not supported: three checks were
\* rejected with that error after one createClient, though the file has been
\* replaced by a good one
C27_Witness ==
  /\ clientPromise = Rejected("ERR_UPDATER_UNSUPPORTED_PROVIDER")
  /\ providerResult = clientPromise
  /\ providerCalls = [gets |-> MaxGetProvider, reads |-> 1, creates |-> 1]
  /\ configFile = PublishConfiguration("object", "generic", PlainUrl, "unset", FALSE)

(***************************************************************************)
(* The cache directory: getOrCreateDownloadHelper                          *)
(***************************************************************************)

AppNames == {"app1", "app2"}

Channels == {"latest", "beta"}

\* app.baseCachePath: the cache directory of the user, the same for every app
BaseCachePath == "Caches"

\* updaterCacheDirName?: string | null
NoDirName == [isNull |-> TRUE, s |-> ""]

DirName(s) == [isNull |-> FALSE, s |-> s]

\* the updaterCacheDirName the builder writes for an app (appInfo)
UpdaterCacheDirName(name) == IF name = "app1" THEN "app1-updater" ELSE "app2-updater"

\* the installations: built by a builder that writes updaterCacheDirName, by an
\* older one that does not, or with an empty one
Installations ==
  UNION {{Installation(name, ch, dirName) :
            ch \in Channels,
            dirName \in {NoDirName, DirName(""), DirName(UpdaterCacheDirName(name))}} :
         name \in AppNames}

\* path.join(this.app.baseCachePath, dirName || this.app.name)
cacheDirPath(app) ==
  <<BaseCachePath,
    IF app.updaterCacheDirName.isNull \/ app.updaterCacheDirName.s = ""
    THEN app.name ELSE app.updaterCacheDirName.s>>

InitHelper ==
  /\ UpdaterIdle
  /\ StagingIdle
  /\ PlanIdle
  /\ ProviderIdle
  /\ QuitIdle
  /\ PublishIdle
  /\ PackIdle
  /\ apps \in [1..2 -> Installations]
  /\ downloadedUpdateHelper = [u \in 1..2 |-> NoHelper]
  /\ MoreIdle

\* getOrCreateDownloadHelper of updater u: the helper is created once
GetOrCreateDownloadHelper(u) ==
  /\ downloadedUpdateHelper[u] = NoHelper
  /\ downloadedUpdateHelper' = [downloadedUpdateHelper EXCEPT ![u] = cacheDirPath(apps[u])]
  /\ UNCHANGED <<updaterVars, moreVars, stagingVars, planVars, providerVars, quitVars, publishVars,
                 packVars, apps>>

NextHelper == \E u \in 1..2 : GetOrCreateDownloadHelper(u)

SpecHelper == InitHelper /\ [][NextHelper]_vars

\* C26: the cache directory of an updater is baseCachePath joined with the
\* updaterCacheDirName of its config, or with the app name when that is
\* absent or empty, and the updaters of two installations that differ in the app or in
\* the update channel have different cache directories.
C26_CacheDirectoryNamespacing ==
  /\ \A u \in 1..2 :
       downloadedUpdateHelper[u] # NoHelper
         => downloadedUpdateHelper[u]
              = <<BaseCachePath,
                  IF apps[u].updaterCacheDirName \in {NoDirName, DirName("")}
                  THEN apps[u].name
                  ELSE apps[u].updaterCacheDirName.s>>
  /\ (/\ downloadedUpdateHelper[1] # NoHelper
      /\ downloadedUpdateHelper[2] # NoHelper
      /\ \/ apps[1].name # apps[2].name
         \/ apps[1].channel # apps[2].channel)
       => downloadedUpdateHelper[1] # downloadedUpdateHelper[2]

(***************************************************************************)
(* quitAndInstall (BaseUpdater.ts)                                         *)
(***************************************************************************)

\* the number of quitAndInstall calls a behaviour makes
MaxQuits == 3

\* a boolean value
BooleanValue(b) == [type |-> "boolean", b |-> b, elems |-> <<>>]

\* an InstallResultTuple, [willInstall] or [willInstall, installed]: an array
InstallResultTuple(elems) == [type |-> "array", b |-> FALSE, elems |-> elems]

\* the boolean a condition takes a value for: an array is an object, and
\* every object counts as true
ToBoolean(value) == IF value.type = "boolean" THEN value.b ELSE TRUE

\* what install(isSilent, isForceRunAfter) returns
installResult(outcome) ==
  IF installCalled \/ ~helperFile \/ outcome = "throws"
  THEN InstallResultTuple(<<FALSE>>)
  ELSE InstallResultTuple(<<TRUE, "installed">>)

\* the progress of the install call that quitAndInstall makes
installProgress(outcome) ==
  IF installCalled THEN [pc |-> "done", result |-> "ignored", errorEvents |-> 0]
  ELSE IF ~helperFile \/ outcome = "throws"
  THEN [pc |-> "done", result |-> "failed", errorEvents |-> 1]
  ELSE [pc |-> "installing", result |-> outcome, errorEvents |-> 0]

\* variant: installCalled is set before the downloaded file is looked at
ensureDownloadedInstallerSetsFirst == TRUE

\* installCalled after ensureDownloadedInstaller
ensureDownloadedInstaller == installCalled \/ helperFile

InitQuit ==
  /\ autoDownload = TRUE
  /\ allowDowngrade = FALSE
  /\ useSemver = "true"
  /\ currentVersionString = V_1_0_0
  /\ channel = NullChannel
  /\ provider = "generic"
  /\ stagingUserId = Null
  /\ checkForUpdatesPromise = 0
  /\ updateInfoAndProvider = NoInfo
  /\ checks = <<>>
  /\ lastCall = NoCall
  /\ arg = UpdateInfo(<<>>, Null)
  /\ ret = NoResult
  /\ gate = "none"
  /\ platform = "linux"
  /\ cacheDir = EmptyCacheDir
  /\ helperFile \in BOOLEAN
  /\ tokens = <<>>
  /\ downloads = <<>>
  /\ lastResult = NoCheckResult
  /\ installCalled = FALSE
  /\ installs = <<>>
  /\ StagingIdle
  /\ PlanIdle
  /\ ProviderIdle
  /\ HelperIdle
  /\ PublishIdle
  /\ PackIdle
  /\ isExternalApp \in BOOLEAN
  /\ quitCalls = <<>>
  /\ immediates = 0
  /\ quitEvents = <<>>
  /\ externalCalls = <<>>
  /\ OnQuitIdle
  /\ MoreIdle

\* quitAndInstall(isSilent, isForceRunAfter)
QuitAndInstall(outcome) ==
  /\ Len(quitCalls) < MaxQuits
  /\ IF isExternalApp
     THEN /\ quitCalls' = Append(quitCalls,
                                 [threw |-> TRUE, willInstall |-> FALSE,
                                  scheduled |-> FALSE, installCalled |-> installCalled])
          /\ UNCHANGED <<installCalled, installs, immediates>>
     ELSE LET isInstalled == installResult(outcome)
          IN /\ installs' = Append(installs, installProgress(outcome))
             /\ installCalled' = IF ToBoolean(isInstalled)
                                 THEN ensureDownloadedInstaller
                                 ELSE FALSE
             /\ immediates' = IF ToBoolean(isInstalled) THEN immediates + 1
                              ELSE immediates
             /\ quitCalls' = Append(quitCalls,
                                    [threw |-> FALSE, willInstall |-> isInstalled.elems[1],
                                     scheduled |-> ToBoolean(isInstalled),
                                     installCalled |-> installCalled'])
  /\ UNCHANGED <<fields, checkVars, lastCall, pureVars, platform, cacheDir, helperFile,
                 tokens, downloads, lastResult, stagingVars, planVars, providerVars,
                 helperVars, publishVars, packVars, moreVars, isExternalApp, quitEvents,
                 externalCalls, onQuitVars>>

\* the callback quitAndInstall gave to setImmediate
QuitImmediate ==
  /\ immediates > 0
  /\ immediates' = immediates - 1
  /\ quitEvents' = quitEvents \o <<"before-quit-for-update", "quit">>
  /\ UNCHANGED <<updaterVars, moreVars, stagingVars, planVars, providerVars, helperVars,
                 publishVars, packVars, isExternalApp, quitCalls, externalCalls, onQuitVars>>

\* the number of installExternal calls a behaviour makes
MaxExternalCalls == 3

\* installExternal(isSilent, isForceRunAfter), up to its await
InstallExternal(outcome) ==
  /\ Len(externalCalls) < MaxExternalCalls
  /\ IF ~isExternalApp
     THEN /\ externalCalls' = Append(externalCalls,
                                     [pc |-> "done", result |-> "threw", install |-> 0])
          /\ UNCHANGED <<installCalled, installs>>
     ELSE LET willInstall == installResult(outcome).elems[1]
          IN /\ installs' = Append(installs, installProgress(outcome))
             /\ installCalled' = IF willInstall THEN ensureDownloadedInstaller ELSE FALSE
             /\ externalCalls' = Append(externalCalls,
                                        IF willInstall
                                        THEN [pc |-> "awaiting", result |-> "none",
                                              install |-> Len(installs) + 1]
                                        ELSE [pc |-> "done", result |-> "false",
                                              install |-> Len(installs) + 1])
  /\ UNCHANGED <<fields, checkVars, lastCall, pureVars, platform, cacheDir, helperFile,
                 tokens, downloads, lastResult, stagingVars, planVars, providerVars,
                 helperVars, publishVars, packVars, moreVars, isExternalApp, quitCalls,
                 immediates, quitEvents, onQuitVars>>

\* the promise the c-th installExternal call awaits has settled: it returns
\* true, through its finally block
InstallExternalReturns(c) ==
  /\ externalCalls[c].pc = "awaiting"
  /\ installs[externalCalls[c].install].pc = "done"
  /\ externalCalls' = [externalCalls EXCEPT ![c].pc = "done", ![c].result = "true"]
  /\ installCalled' = FALSE
  /\ UNCHANGED <<fields, checkVars, lastCall, pureVars, platform, cacheDir, helperFile,
                 tokens, downloads, lastResult, installs, stagingVars, planVars,
                 providerVars, helperVars, publishVars, packVars, moreVars, isExternalApp,
                 quitCalls, immediates, quitEvents, onQuitVars>>

NextQuit ==
  \/ \E outcome \in InstallOutcomes : QuitAndInstall(outcome)
  \/ QuitImmediate
  \/ \E outcome \in InstallOutcomes : Install(outcome)
  \/ \E i \in 1..Len(installs) : InstallSettles(i)
  \/ \E outcome \in InstallOutcomes : InstallExternal(outcome)
  \/ \E c \in 1..Len(externalCalls) : InstallExternalReturns(c)

SpecQuit == InitQuit /\ [][NextQuit]_vars

\* C28: a quitAndInstall call schedules the 'before-quit-for-update' emission
\* and app.quit() exactly when install reported that the installer was
\* launched, and when install reported that it was not, installCalled is
\* false after the call.
C28_QuitOnlyAfterLaunchedInstall ==
  \A i \in 1..Len(quitCalls) :
    ~quitCalls[i].threw
      => /\ quitCalls[i].scheduled = quitCalls[i].willInstall
         /\ ~quitCalls[i].willInstall => ~quitCalls[i].installCalled

(***************************************************************************)
(* The update-info files of an artifact (updateInfoBuilder.ts)             *)
(***************************************************************************)

\* the number of publish configurations of an artifact
MaxPublishConfigs == 3

Alpha == <<"a", "l", "p", "h", "a">>

Beta == <<"b", "e", "t", "a">>

Latest == <<"l", "a", "t", "e", "s", "t">>

Dev == <<"d", "e", "v">>

\* the channel of a publish configuration: unset, or a string
PublishChannels == {Null, Str(<<>>), Str(Alpha), Str(Beta), Str(Latest), Str(Dev)}

PublishProviders == {"generic", "github"}

PublishConfigurations ==
  {[provider |-> p, channel |-> c] : p \in PublishProviders, c \in PublishChannels}

PublishConfigurationLists ==
  UNION {[1..n -> PublishConfigurations] : n \in 0..MaxPublishConfigs}

\* generateUpdatesFilesForAllChannels of the platform options and of the config
OptionValues == {"null", "true", "false"}

BuildPlatforms == {"windows", "mac", "linux"}

Archs == {"x64", "armv7l"}

\* the ArtifactCreated events and the publish configurations they come with
Artifacts ==
  {[platform |-> pl, arch |-> ar, platformOption |-> po, configOption |-> co,
    publishConfigs |-> cs] :
     pl \in BuildPlatforms, ar \in Archs, po \in OptionValues, co \in OptionValues,
     cs \in PublishConfigurationLists}

isGenerateUpdatesFilesForAllChannels(packager) ==
  LET value == packager.platformOption
  IN IF value = "null" THEN packager.configOption ELSE value

\* variant: a beta build gets the file of its own channel only
computeChannelNamesNoBeta(packager, publishConfig) ==
  LET currentChannel == IF publishConfig.channel.isNull \/ publishConfig.channel.s = <<>>
                        THEN Latest
                        ELSE publishConfig.channel.s
  IN IF currentChannel = Alpha \/ isGenerateUpdatesFilesForAllChannels(packager) # "true"
     THEN <<currentChannel>>
     ELSE IF currentChannel = Latest THEN <<currentChannel, Alpha, Beta>>
     ELSE <<currentChannel>>

computeChannelNames(packager, publishConfig) ==
  LET currentChannel == IF publishConfig.channel.isNull \/ publishConfig.channel.s = <<>>
                        THEN Latest
                        ELSE publishConfig.channel.s
  IN IF currentChannel = Alpha \/ isGenerateUpdatesFilesForAllChannels(packager) # "true"
     THEN <<currentChannel>>
     ELSE IF currentChannel = Beta THEN <<currentChannel, Alpha>>
     ELSE IF currentChannel = Latest THEN <<currentChannel, Alpha, Beta>>
     ELSE <<currentChannel>>

getArchPrefixForUpdateFile(arch, packager) ==
  IF arch = "null" \/ arch = "x64" \/ packager.platform # "linux" THEN <<>>
  ELSE IF arch = "armv7l" THEN <<"-", "a", "r", "m">>
  ELSE <<"-">> \o <<arch>>

\* platform.buildConfigurationKey
buildConfigurationKey(buildPlatform) ==
  IF buildPlatform = "mac" THEN <<"m", "a", "c">>
  ELSE IF buildPlatform = "linux" THEN <<"l", "i", "n", "u", "x">>
  ELSE <<"w", "i", "n">>

getUpdateInfoFileName(updateChannel, packager, arch) ==
  LET osSuffix == IF packager.platform = "windows" THEN <<>>
                  ELSE <<"-">> \o buildConfigurationKey(packager.platform)
  IN updateChannel \o osSuffix \o getArchPrefixForUpdateFile(arch, packager)
       \o <<".", "y", "m", "l">>

\* the directory of the files of the k-th publish configuration, under outDir
updateInfoDir(publishConfigs, k) ==
  IF Len(publishConfigs) > 1 /\ k # 1
  THEN <<"outDir", publishConfigs[k].provider>>
  ELSE <<"outDir">>

\* the inner loop of createUpdateInfoTasks, from the i-th channel name on
RECURSIVE ChannelTasks(_, _, _, _, _)
ChannelTasks(event, k, names, i, tasks) ==
  IF i > Len(names) THEN tasks
  ELSE LET updateInfoFile ==
             Append(updateInfoDir(event.publishConfigs, k),
                    getUpdateInfoFileName(names[i], event, event.arch))
           createdFiles == {tasks[t].file : t \in 1..Len(tasks)}
       IN ChannelTasks(event, k, names, i + 1,
                       IF updateInfoFile \in createdFiles THEN tasks
                       ELSE Append(tasks, [file |-> updateInfoFile,
                                           publishConfiguration |-> k]))

\* the outer loop of createUpdateInfoTasks, from the k-th configuration on
RECURSIVE ConfigurationTasks(_, _, _)
ConfigurationTasks(event, k, tasks) ==
  IF k > Len(event.publishConfigs) THEN tasks
  ELSE ConfigurationTasks(event, k + 1,
         ChannelTasks(event, k, computeChannelNames(event, event.publishConfigs[k]), 1,
                      tasks))

createUpdateInfoTasks(event) == ConfigurationTasks(event, 1, <<>>)

InitPublish ==
  /\ UpdaterIdle
  /\ StagingIdle
  /\ PlanIdle
  /\ ProviderIdle
  /\ HelperIdle
  /\ QuitIdle
  /\ PackIdle
  /\ artifact \in Artifacts
  /\ updateInfoTasks = NoTasks
  /\ MoreIdle

CreateUpdateInfoTasks ==
  /\ ~updateInfoTasks.done
  /\ updateInfoTasks' = [done |-> TRUE, tasks |-> createUpdateInfoTasks(artifact)]
  /\ UNCHANGED <<updaterVars, moreVars, stagingVars, planVars, providerVars, helperVars, quitVars,
                 packVars, artifact>>

NextPublish == CreateUpdateInfoTasks

SpecPublish == InitPublish /\ [][NextPublish]_vars

\* the option is enabled for the artifact
AllChannelsEnabled ==
  \/ artifact.platformOption = "true"
  \/ artifact.platformOption = "null" /\ artifact.configOption = "true"

\* the channels whose files a build of the given channel is said to yield
ChannelsOfBuild(buildChannel) ==
  LET current == IF buildChannel.isNull \/ buildChannel.s = <<>> THEN Latest
                 ELSE buildChannel.s
  IN IF ~AllChannelsEnabled THEN {current}
     ELSE IF current = Alpha THEN {Alpha}
     ELSE IF current = Beta THEN {Beta, Alpha}
     ELSE IF current = Latest THEN {Latest, Alpha, Beta}
     ELSE {current}

\* the file of a channel for the k-th publish configuration of the artifact
ChannelFile(k, updateChannel) ==
  Append(IF k = 1 \/ Len(artifact.publishConfigs) = 1 THEN <<"outDir">>
         ELSE <<"outDir", artifact.publishConfigs[k].provider>>,
         updateChannel
           \o (IF artifact.platform = "windows" THEN <<>>
               ELSE IF artifact.platform = "mac" THEN <<"-", "m", "a", "c">>
               ELSE <<"-", "l", "i", "n", "u", "x">>)
           \o (IF artifact.platform = "linux" /\ artifact.arch = "armv7l"
               THEN <<"-", "a", "r", "m">> ELSE <<>>)
           \o <<".", "y", "m", "l">>)

\* C29: the update-info files in the tasks of an artifact are, for each of
\* its publish configurations, the files of the channels of the build: alpha
\* alone for an alpha build, beta and alpha for a beta build, latest, alpha
\* and beta for a stable build (channel latest or unset), the own channel
\* for any other, and the current channel alone when
\* generateUpdatesFilesForAllChannels is not enabled; and no file path is in
\* two tasks.
C29_UpdateInfoChannelFiles ==
  updateInfoTasks.done
    => LET tasks == updateInfoTasks.tasks
       IN /\ {tasks[t].file : t \in 1..Len(tasks)}
               = UNION {{ChannelFile(k, c) :
                           c \in ChannelsOfBuild(artifact.publishConfigs[k].channel)} :
                        k \in 1..Len(artifact.publishConfigs)}
          /\ \A k \in 1..Len(artifact.publishConfigs) :
               k = 1 \/ artifact.publishConfigs[k].provider
                          \notin {artifact.publishConfigs[j].provider : j \in 2..(k - 1)}
                 => {tasks[t].file : t \in {u \in 1..Len(tasks) :
                                             tasks[u].publishConfiguration = k}}
                      = {ChannelFile(k, c) :
                           c \in ChannelsOfBuild(artifact.publishConfigs[k].channel)}
          /\ \A t, u \in 1..Len(tasks) : tasks[t].file = tasks[u].file => t = u

\* a stable build with the option enabled and two more configurations of
\* one provider that build beta and alpha: the alpha file of the third
\* configuration is the one of the second
C29_Witness ==
  /\ updateInfoTasks.done
  /\ AllChannelsEnabled
  /\ Len(artifact.publishConfigs) = 3
  /\ artifact.publishConfigs[1].channel = Null
  /\ artifact.publishConfigs[2] = [provider |-> "github", channel |-> Str(Beta)]
  /\ artifact.publishConfigs[3] = [provider |-> "github", channel |-> Str(Alpha)]
  /\ Len(updateInfoTasks.tasks) = 5

(***************************************************************************)
(* The afterPack handlers of the packager (packager.ts)                    *)
(***************************************************************************)

\* the number of handlers a behaviour registers
MaxHandlers == 2

\* the number of packs of a behaviour
MaxPacks == 2

\* the handlers given to addAfterPackHandler
Handlers == {"h1", "h2"}

\* the handler config.afterPack resolves to
UserHandler == "afterPack"

\* a handler called throws, or returns a value or a promise to await
CallOutcomes == {"throws", "returns"}

SettleOutcomes == {"resolves", "rejects"}

\* variant: the user handler is put first
packHandlersUserFirst(registered, afterPack) ==
  (IF afterPack THEN <<UserHandler>> ELSE <<>>) \o registered

\* handlers = afterPackHandlers.slice(), with config.afterPack pushed when set
packHandlers(registered, afterPack) ==
  registered \o (IF afterPack THEN <<UserHandler>> ELSE <<>>)

\* the for loop of afterPack arrives at the i-th handler and calls it
CallHandler(pack, i, called) ==
  IF i > Len(pack.handlers)
  THEN [pack EXCEPT !.pc = "resolved", !.i = i]
  ELSE [pack EXCEPT
          !.i = i,
          !.pc = IF called = "throws" THEN "rejected" ELSE "awaiting",
          !.events = Append(@, <<"call", pack.handlers[i]>>)]

InitPack ==
  /\ UpdaterIdle
  /\ StagingIdle
  /\ PlanIdle
  /\ ProviderIdle
  /\ HelperIdle
  /\ QuitIdle
  /\ PublishIdle
  /\ afterPackHandlers = <<>>
  /\ configAfterPack \in BOOLEAN
  /\ packs = <<>>
  /\ MoreIdle

AddAfterPackHandler(handler) ==
  /\ Len(afterPackHandlers) < MaxHandlers
  /\ afterPackHandlers' = Append(afterPackHandlers, handler)
  /\ UNCHANGED <<updaterVars, moreVars, stagingVars, planVars, providerVars, helperVars, quitVars,
                 publishVars, configAfterPack, packs>>

\* afterPack(context), up to its first await
AfterPack(called) ==
  /\ Len(packs) < MaxPacks
  /\ packs' = Append(packs,
                     CallHandler([handlers |-> packHandlers(afterPackHandlers,
                                                            configAfterPack),
                                  registered |-> Len(afterPackHandlers),
                                  i |-> 0, pc |-> "started", events |-> <<>>],
                                 1, called))
  /\ UNCHANGED <<updaterVars, moreVars, stagingVars, planVars, providerVars, helperVars, quitVars,
                 publishVars, afterPackHandlers, configAfterPack>>

\* what pack p awaits settles: afterPack goes on with the next handler, or
\* rejects
HandlerSettles(p, settled, called) ==
  /\ packs[p].pc = "awaiting"
  /\ LET pack == [packs[p] EXCEPT
                    !.events = Append(@, <<settled, packs[p].handlers[packs[p].i]>>)]
     IN packs' = [packs EXCEPT
                    ![p] = IF settled = "rejects" THEN [pack EXCEPT !.pc = "rejected"]
                           ELSE CallHandler(pack, pack.i + 1, called)]
  /\ UNCHANGED <<updaterVars, moreVars, stagingVars, planVars, providerVars, helperVars, quitVars,
                 publishVars, afterPackHandlers, configAfterPack>>

NextPack ==
  \/ \E handler \in Handlers : AddAfterPackHandler(handler)
  \/ \E called \in CallOutcomes : AfterPack(called)
  \/ \E p \in 1..Len(packs), settled \in SettleOutcomes, called \in CallOutcomes :
       HandlerSettles(p, settled, called)

SpecPack == InitPack /\ [][NextPack]_vars

\* the handlers pack p has called, in the order of the calls
RECURSIVE CalledOf(_)
CalledOf(events) ==
  IF events = <<>> THEN <<>>
  ELSE LET rest == CalledOf(SubSeq(events, 1, Len(events) - 1))
       IN IF events[Len(events)][1] = "call"
          THEN Append(rest, events[Len(events)][2])
          ELSE rest

\* C30: in each pack the handlers called are, in this order, the handlers
\* that were registered through addAfterPackHandler when the pack began, in
\* the order of their registration, and then the user-configured afterPack
\* handler; a handler is called only once what the handler before it
\* returned has resolved; the user handler is called after all the others and
\* not twice, and a pack whose afterPack resolves has called every handler,
\* the user handler once.
C30_AfterPackHandlerOrder ==
  \A p \in 1..Len(packs) :
    LET pack == packs[p]
        called == CalledOf(pack.events)
        expected == SubSeq(afterPackHandlers, 1, pack.registered)
                      \o (IF configAfterPack THEN <<UserHandler>> ELSE <<>>)
    IN /\ Len(called) <= Len(expected)
       /\ called = SubSeq(expected, 1, Len(called))
       /\ \A j \in 2..Len(pack.events) :
            pack.events[j][1] = "call"
              => /\ pack.events[j - 1][1] = "resolves"
                 /\ \E n \in 2..Len(called) :
                      /\ pack.events[j][2] = called[n]
                      /\ pack.events[j - 1][2] = called[n - 1]
       /\ \A n \in 1..Len(called) :
            called[n] = UserHandler => n = Len(called) /\ n = pack.registered + 1
       /\ pack.pc = "resolved" => called = expected

\* two packs of a packager with two registered handlers and a user handler
\* have both resolved
C30_Witness ==
  /\ configAfterPack
  /\ Len(packs) = 2
  /\ \A p \in 1..2 :
       /\ packs[p].pc = "resolved"
       /\ CalledOf(packs[p].events) = <<"h2", "h1", UserHandler>>

(***************************************************************************)
(* Writing the update-info files (PublishManager, updateInfoBuilder.ts)    *)
(***************************************************************************)

\* the number of artifacts of a build that get update-info tasks
MaxArtifacts == 2

ZipUrl == <<"a", ".", "z", "i", "p">>

DmgUrl == <<"a", ".", "d", "m", "g">>

\* url.endsWith(suffix)
EndsWith(url, suffix) ==
  /\ Len(url) >= Len(suffix)
  /\ SubSeq(url, Len(url) - Len(suffix) + 1, Len(url)) = suffix

\* publishAutoUpdate of a publish configuration: not set, or a boolean
WriteConfigurations ==
  {[provider |-> p, channel |-> Str(Beta), publishAutoUpdate |-> a] :
     p \in PublishProviders, a \in {"unset", "true", "false"}}

WriteConfigurationLists ==
  {<<c>> : c \in WriteConfigurations}
    \cup {<<c, d>> : c \in WriteConfigurations,
                     d \in {x \in WriteConfigurations :
                              x.provider = "github" /\ x.publishAutoUpdate # "true"}}

\* the ArtifactCreated events of the artifacts of a mac build
WriteEvents ==
  {[platform |-> "mac", arch |-> "x64", platformOption |-> "null", configOption |-> co,
    publishConfigs |-> cs, file |-> u] :
     co \in {"true", "false"}, cs \in WriteConfigurationLists, u \in {ZipUrl, DmgUrl}}

\* createUpdateInfo: the files list of the UpdateInfo of the n-th artifact
createUpdateInfo(event, n) == <<[url |-> event.file, sha512 |-> n]>>

\* the tasks of createUpdateInfoTasks, which all refer to one UpdateInfo
UpdateInfoFileTasks(event, info) ==
  LET tasks == createUpdateInfoTasks(event)
  IN [t \in 1..Len(tasks) |->
        [file |-> tasks[t].file,
         info |-> info,
         publishConfiguration |-> event.publishConfigs[tasks[t].publishConfiguration]]]

\* the key of a task in updateChannelFileToInfo
taskKey(task) == <<task.file, task.publishConfiguration>>

\* updateInfoFileTasks.sort(...): the tasks of a zip first
sortZipFirst(tasks, heap) ==
  SelectSeq(tasks, LAMBDA t : EndsWith(heap[t.info][1].url, <<".", "z", "i", "p">>))
    \o SelectSeq(tasks, LAMBDA t : ~EndsWith(heap[t.info][1].url, <<".", "z", "i", "p">>))

\* the loop of writeUpdateInfoFiles over the tasks, from the i-th on: the
\* tasks kept and the UpdateInfo objects
RECURSIVE MergeTasks(_, _, _, _)
MergeTasks(tasks, i, kept, heap) ==
  IF i > Len(tasks) THEN [kept |-> kept, heap |-> heap]
  ELSE LET task == tasks[i]
           same == {k \in 1..Len(kept) : taskKey(kept[k]) = taskKey(task)}
       IN IF same = {}
          THEN MergeTasks(tasks, i + 1, Append(kept, task), heap)
          ELSE LET existingTask == kept[CHOOSE k \in same : TRUE]
               IN MergeTasks(tasks, i + 1, kept,
                             [heap EXCEPT ![existingTask.info] = @ \o heap[task.info]])

InitWrite ==
  /\ UpdaterIdle
  /\ StagingIdle
  /\ PlanIdle
  /\ ProviderIdle
  /\ HelperIdle
  /\ QuitIdle
  /\ PublishIdle
  /\ PackIdle
  /\ BuildIdle
  /\ DisposeIdle
  /\ WriteIdle

\* artifactCreatedWithoutExplicitPublishConfig(event) and its task
ArtifactCreated(event) ==
  /\ Len(artifactEvents) < MaxArtifacts
  /\ updateChannelFileToInfo = <<>>
  /\ artifactEvents' = Append(artifactEvents, event)
  /\ infos' = Append(infos, createUpdateInfo(event, Len(infos) + 1))
  /\ updateFileWriteTask' = updateFileWriteTask \o UpdateInfoFileTasks(event, Len(infos) + 1)
  /\ UNCHANGED <<updaterVars, stagingVars, planVars, providerVars, helperVars, quitVars,
                 publishVars, packVars, buildVars, disposeVars, updateChannelFileToInfo,
                 pendingWrites, writtenFiles, dispatchedArtifacts>>

\* writeUpdateInfoFiles(updateInfoFileTasks, packager), up to the first await
WriteUpdateInfoFiles ==
  /\ updateFileWriteTask # <<>>
  /\ updateChannelFileToInfo = <<>>
  /\ LET sorted == sortZipFirst(updateFileWriteTask, infos)
         merged == MergeTasks(sorted, 1, <<>>, infos)
     IN /\ updateFileWriteTask' = sorted
        /\ updateChannelFileToInfo' = merged.kept
        /\ infos' = merged.heap
        /\ pendingWrites' = 1..Len(merged.kept)
  /\ UNCHANGED <<updaterVars, stagingVars, planVars, providerVars, helperVars, quitVars,
                 publishVars, packVars, buildVars, disposeVars, artifactEvents,
                 writtenFiles, dispatchedArtifacts>>

\* the callback of BluebirdPromise.map for the t-th kept task
WriteTask(t) ==
  /\ t \in pendingWrites
  /\ pendingWrites' = pendingWrites \ {t}
  /\ LET task == updateChannelFileToInfo[t]
         publishConfig == task.publishConfiguration
     IN IF publishConfig.publishAutoUpdate = "false"
        THEN UNCHANGED <<writtenFiles, dispatchedArtifacts>>
        ELSE /\ writtenFiles' = writtenFiles
                                  \cup {[file |-> task.file, publishConfig |-> publishConfig,
                                         files |-> infos[task.info]]}
             /\ dispatchedArtifacts' = dispatchedArtifacts
                                         \cup {[file |-> task.file,
                                                publishConfig |-> publishConfig]}
  /\ UNCHANGED <<updaterVars, stagingVars, planVars, providerVars, helperVars, quitVars,
                 publishVars, packVars, buildVars, disposeVars, artifactEvents, infos,
                 updateFileWriteTask, updateChannelFileToInfo>>

NextWrite ==
  \/ \E event \in WriteEvents : ArtifactCreated(event)
  \/ WriteUpdateInfoFiles
  \/ \E t \in 1..Len(updateChannelFileToInfo) : WriteTask(t)

SpecWrite == InitWrite /\ [][NextWrite]_vars

\* the entry of the artifact a task was created for
EntryOf(task) == [url |-> artifactEvents[task.info].file, sha512 |-> task.info]

IsZip(entry) == entry.url = ZipUrl

\* the entries of the tasks with the key of the given task, those of a zip first
MergedEntries(task) ==
  LET group == SelectSeq(updateFileWriteTask, LAMBDA t : taskKey(t) = taskKey(task))
      entries == [g \in 1..Len(group) |-> EntryOf(group[g])]
  IN SelectSeq(entries, IsZip) \o SelectSeq(entries, LAMBDA x : ~IsZip(x))

\* C31: for a task whose publish configuration has publishAutoUpdate false
\* no update-info file is written and no artifactCreated event dispatched;
\* once writeUpdateInfoFiles is through, the tasks with one file and one
\* publish configuration have one written file, and its files list is the
\* entries of these tasks, the zip entries first.
C31_PublishAutoUpdateAndMerge ==
  \A i \in 1..Len(updateFileWriteTask) :
    LET task == updateFileWriteTask[i]
        writes == {w \in writtenFiles : <<w.file, w.publishConfig>> = taskKey(task)}
        events == {d \in dispatchedArtifacts : <<d.file, d.publishConfig>> = taskKey(task)}
    IN /\ task.publishConfiguration.publishAutoUpdate = "false"
            => writes = {} /\ events = {}
       /\ (/\ task.publishConfiguration.publishAutoUpdate # "false"
           /\ updateChannelFileToInfo # <<>>
           /\ pendingWrites = {})
            => /\ Cardinality(writes) = 1
               /\ Cardinality(events) = 1
               /\ \A w \in writes : w.files = MergedEntries(task)

\* C32: doInstall is not invoked while an install it started before has not
\* finished: at any time at most one install is under way, whatever
\* quitAndInstall, installExternal and quit-handler calls overlap.
C32_InstallOnceGuard ==
  Cardinality({i \in 1..Len(installs) : installs[i].pc = "installing"}) <= 1

(***************************************************************************)
(* The quit handler (BaseUpdater.addQuitHandler)                           *)
(***************************************************************************)

\* the number of downloads that complete in a behaviour
MaxDone == 2

\* the number of times the app quits in a behaviour
MaxAppQuits == 2

ExitCodes == {0, 1}

\* variant: quitHandlerAdded is not looked at
addQuitHandlerAgain(added, autoInstall, external) == autoInstall /\ ~external

\* addQuitHandler goes on to app.onQuit
addQuitHandler(added, autoInstall, external) == ~(added \/ ~autoInstall \/ external)

\* the handler given to app.onQuit calls onQuitInstall(true, false)
quitHandlerInstalls(called, autoInstall, exitCode) ==
  ~called /\ autoInstall /\ exitCode = 0

\* the n handlers of app.onQuit run one after the other: installCalled, the
\* installs and the onQuitInstall calls after them
RECURSIVE RunQuitHandlers(_, _, _, _)
RunQuitHandlers(n, exitCode, outcome, st) ==
  IF n = 0 THEN st
  ELSE RunQuitHandlers(n - 1, exitCode, outcome,
         IF ~quitHandlerInstalls(st.installCalled, autoInstallOnAppQuit, exitCode) THEN st
         ELSE [installCalled |-> st.installCalled \/ helperFile,
               installs |->
                 Append(st.installs,
                        IF st.installCalled
                        THEN [pc |-> "done", result |-> "ignored", errorEvents |-> 0]
                        ELSE IF ~helperFile \/ outcome = "throws"
                        THEN [pc |-> "done", result |-> "failed", errorEvents |-> 1]
                        ELSE [pc |-> "installing", result |-> outcome, errorEvents |-> 0]),
               calls |-> Append(st.calls, [isSilent |-> TRUE, isForceRunAfter |-> FALSE])])

InitOnQuit ==
  /\ autoDownload = TRUE
  /\ allowDowngrade = FALSE
  /\ useSemver = "true"
  /\ currentVersionString = V_1_0_0
  /\ channel = NullChannel
  /\ provider = "generic"
  /\ stagingUserId = Null
  /\ checkForUpdatesPromise = 0
  /\ updateInfoAndProvider = NoInfo
  /\ checks = <<>>
  /\ lastCall = NoCall
  /\ arg = UpdateInfo(<<>>, Null)
  /\ ret = NoResult
  /\ gate = "none"
  /\ platform = "linux"
  /\ cacheDir = EmptyCacheDir
  /\ helperFile = FALSE
  /\ tokens = <<>>
  /\ downloads = <<>>
  /\ lastResult = NoCheckResult
  /\ installCalled = FALSE
  /\ installs = <<>>
  /\ StagingIdle
  /\ PlanIdle
  /\ ProviderIdle
  /\ HelperIdle
  /\ PublishIdle
  /\ PackIdle
  /\ MoreIdle
  /\ isExternalApp \in BOOLEAN
  /\ quitCalls = <<>>
  /\ immediates = 0
  /\ quitEvents = <<>>
  /\ externalCalls = <<>>
  /\ quitHandlerAdded = FALSE
  /\ autoInstallOnAppQuit \in BOOLEAN
  /\ onQuitHandlers = 0
  /\ appQuits = <<>>

\* the application assigns autoInstallOnAppQuit
SetAutoInstallOnAppQuit(value) ==
  /\ autoInstallOnAppQuit # value
  /\ autoInstallOnAppQuit' = value
  /\ UNCHANGED <<updaterVars, stagingVars, planVars, providerVars, helperVars, publishVars,
                 packVars, moreVars, isExternalApp, quitCalls, immediates, quitEvents,
                 externalCalls, quitHandlerAdded, onQuitHandlers, appQuits>>

\* a download completes: the done callback of BaseUpdater.executeDownload,
\* after setDownloadedFile
DownloadDone ==
  /\ Len(quitEvents) < MaxDone
  /\ helperFile' = TRUE
  /\ quitEvents' = Append(quitEvents, "update-downloaded")
  /\ IF addQuitHandler(quitHandlerAdded, autoInstallOnAppQuit, isExternalApp)
     THEN /\ quitHandlerAdded' = TRUE
          /\ onQuitHandlers' = onQuitHandlers + 1
     ELSE UNCHANGED <<quitHandlerAdded, onQuitHandlers>>
  /\ UNCHANGED <<fields, checkVars, lastCall, pureVars, platform, cacheDir, tokens,
                 downloads, lastResult, installCalled, installs, stagingVars, planVars,
                 providerVars, helperVars, publishVars, packVars, moreVars, isExternalApp,
                 quitCalls, immediates, externalCalls, autoInstallOnAppQuit, appQuits>>

\* the app quits with an exit code: the handlers of app.onQuit run
AppQuit(exitCode, outcome) ==
  /\ Len(appQuits) < MaxAppQuits
  /\ LET after == RunQuitHandlers(onQuitHandlers, exitCode, outcome,
                                  [installCalled |-> installCalled, installs |-> installs,
                                   calls |-> <<>>])
     IN /\ installCalled' = after.installCalled
        /\ installs' = after.installs
        /\ appQuits' = Append(appQuits,
                              [exitCode |-> exitCode, handlers |-> onQuitHandlers,
                               installCalled |-> installCalled,
                               autoInstallOnAppQuit |-> autoInstallOnAppQuit,
                               calls |-> after.calls])
  /\ UNCHANGED <<fields, checkVars, lastCall, pureVars, platform, cacheDir, helperFile,
                 tokens, downloads, lastResult, stagingVars, planVars, providerVars,
                 helperVars, publishVars, packVars, moreVars, isExternalApp, quitCalls,
                 immediates, quitEvents, externalCalls, quitHandlerAdded,
                 autoInstallOnAppQuit, onQuitHandlers>>

NextOnQuit ==
  \/ \E value \in BOOLEAN : SetAutoInstallOnAppQuit(value)
  \/ DownloadDone
  \/ \E exitCode \in ExitCodes, outcome \in InstallOutcomes : AppQuit(exitCode, outcome)
  \/ \E outcome \in InstallOutcomes : QuitAndInstall(outcome)
  \/ \E i \in 1..Len(installs) : InstallSettles(i)

SpecOnQuit == InitOnQuit /\ [][NextOnQuit]_vars

\* C33: an updater gives at most one handler to app.onQuit, whatever the
\* number of completed downloads, and gives it only at a moment at which
\* autoInstallOnAppQuit is true and the app is not external; when the app
\* quits, the handler starts one install, silent and without force-run, if
\* installCalled is false, autoInstallOnAppQuit is true and the exit code is
\* 0, and starts none otherwise.
C33_InstallOnQuit ==
  /\ [](/\ onQuitHandlers <= 1
        /\ \A q \in 1..Len(appQuits) :
             appQuits[q].calls
               = IF /\ appQuits[q].handlers > 0
                    /\ ~appQuits[q].installCalled
                    /\ appQuits[q].autoInstallOnAppQuit
                    /\ appQuits[q].exitCode = 0
                 THEN <<[isSilent |-> TRUE, isForceRunAfter |-> FALSE]>>
                 ELSE <<>>)
  /\ [][onQuitHandlers' # onQuitHandlers
          => /\ onQuitHandlers' = onQuitHandlers + 1
             /\ autoInstallOnAppQuit
             /\ ~isExternalApp]_vars

\* two downloads completed with one handler registered; the app quit once
\* with exit code 0 and the handler started the install, and once after
\* autoInstallOnAppQuit was set to false and nothing was started
C33_Witness ==
  /\ Len(quitEvents) = 2
  /\ onQuitHandlers = 1
  /\ Len(appQuits) = 2
  /\ \E q, r \in 1..2 :
       /\ Len(appQuits[q].calls) = 1
       /\ appQuits[r].handlers = 1
       /\ ~appQuits[r].autoInstallOnAppQuit
       /\ ~appQuits[r].installCalled
       /\ appQuits[r].exitCode = 0
       /\ appQuits[r].calls = <<>>

\* C34: an install call made while installCalled is false and the download
\* helper holds no downloaded file dispatches one 'error' event, does not
\* invoke doInstall, reports not installed and leaves installCalled false.
C34_InstallWithoutDownload ==
  [][(/\ Len(installs') = Len(installs) + 1
      /\ ~installCalled
      /\ ~helperFile)
       => /\ installs'[Len(installs')]
               = [pc |-> "done", result |-> "failed", errorEvents |-> 1]
          /\ ~installCalled'
          /\ Len(quitCalls') > Len(quitCalls)
               => ~quitCalls'[Len(quitCalls')].willInstall]_vars

\* an install without a downloaded update failed, a download completed
\* then, and the next install invoked doInstall
C34_Witness ==
  /\ Len(quitEvents) = 1
  /\ Len(installs) = 2
  /\ installs[1] = [pc |-> "done", result |-> "failed", errorEvents |-> 1]
  /\ installs[2].pc = "installing"

\* C35: a downloadUpdate call made while no check has found an update
\* (updateInfoAndProvider is null) gives a rejected promise and one 'error'
\* event, starts no download (no request, no task, no cancellation token of
\* its own) and leaves the cache directory, the downloaded file and the
\* other downloads as they are.
C35_DownloadRequiresFinding ==
  [][(/\ Len(downloads') = Len(downloads) + 1
      /\ updateInfoAndProvider.isNull
      /\ updateInfoAndProvider'.isNull)
       => /\ downloads'[Len(downloads')]
               = [NewDownload(0, <<>>) EXCEPT !.pc = "done", !.state = "rejected",
                                              !.error = "Error", !.errorEvents = 1]
          /\ SubSeq(downloads', 1, Len(downloads)) = downloads
          /\ cacheDir' = cacheDir
          /\ helperFile' = helperFile
          /\ tokens' = tokens]_vars

\* a downloadUpdate call was rejected for want of a check, and a download
\* started after a check found an update
C35_Witness ==
  /\ Len(downloads) = 2
  /\ downloads[1].state = "rejected"
  /\ downloads[1].version = <<>>
  /\ downloads[1].errorEvents = 1
  /\ ~updateInfoAndProvider.isNull
  /\ downloads[2].taskRan

\* C36: updateInfoAndProvider changes only in the step in which a check
\* finds an update, and then to the manifest that check received; a check
\* that reports 'update-not-available' or fails leaves it as it is, so
\* that what downloadUpdate reads is the finding of the last check that
\* reported an update.
C36_FindingKeptUntilNextFinding ==
  [][updateInfoAndProvider' # updateInfoAndProvider
       => \E p \in 1..Len(checks) :
            /\ checks[p].pc = "getLatestVersion"
            /\ checks'[p].pc = "settled"
            /\ checks'[p].outcome.available
            /\ checks'[p].events[Len(checks'[p].events)] = "update-available"
            /\ updateInfoAndProvider' = [isNull |-> FALSE, info |-> checks'[p].info,
                                         stagingUserId |-> checks[p].stagingUserId]]_vars

\* after a check found 1.1.0, a later check received 0.9.0 and reported
\* 'update-not-available'; the finding is still 1.1.0
C36_Witness ==
  /\ updateInfoAndProvider = [isNull |-> FALSE, info |-> UpdateInfo(V_1_1_0, Null),
                              stagingUserId |-> stagingUserId]
  /\ Len(checks) = 2
  /\ checks[1].pc = "done"
  /\ checks[2].pc = "settled"
  /\ checks[2].info = UpdateInfo(V_0_9_0, Null)
  /\ checks[2].events[Len(checks[2].events)] = "update-not-available"

\* C37: the completion callback of a check, resolved or rejected and whether
\* or not the check started a download, nulls checkForUpdatesPromise; the
\* field never holds a check whose callback has run; and a checkForUpdates
\* call made when no check is in flight starts a check of its own, which has
\* made no provider request yet, instead of returning an earlier promise.
C37_CheckSlotReleased ==
  /\ [][\A p \in 1..Len(checks) :
          (checks[p].pc = "settled" /\ checks'[p].pc = "handled")
            => checkForUpdatesPromise' = 0]_vars
  /\ [](\A p \in 1..Len(checks) :
          checks[p].pc \in {"handled", "done"} => checkForUpdatesPromise # p)
  /\ [][(CheckForUpdates /\ InFlight = {})
          => /\ Len(checks') = Len(checks) + 1
             /\ lastCall'.ret = Len(checks')
             /\ checkForUpdatesPromise' = Len(checks')
             /\ checks'[Len(checks')] = NewCheck]_vars

\* with autoDownload the first check resolved, and the next call started a
\* second check that sent its own request to the provider
C37_Witness ==
  /\ autoDownload
  /\ Len(checks) = 2
  /\ checks[1].pc = "done"
  /\ checks[1].outcome.state = "resolved"
  /\ ~updateInfoAndProvider.isNull
  /\ checkForUpdatesPromise = 2
  /\ checks[2].pc = "getLatestVersion"
  /\ checks[2].latestVersionCalls = 1

(***************************************************************************)
(* build(options, packager): the SIGINT listener, packager.build() with    *)
(* the afterAllArtifactBuild hook, and the handler given to executeFinally *)
(* (part_001 121-163); PublishManager.cancelTasks and awaitTasks           *)
(* (part_002 95-109)                                                       *)
(***************************************************************************)

MaxBuildArtifacts == 3

PromiseOutcomes == {"resolved", "rejected"}

\* there is one other part of the state than that of build
BuildFrame ==
  UNCHANGED <<updaterVars, stagingVars, planVars, providerVars, helperVars, quitVars,
              publishVars, packVars, writeVars, disposeVars>>

InitBuild ==
  /\ UpdaterIdle
  /\ StagingIdle
  /\ PlanIdle
  /\ ProviderIdle
  /\ HelperIdle
  /\ QuitIdle
  /\ PublishIdle
  /\ PackIdle
  /\ WriteIdle
  /\ DisposeIdle
  /\ BuildIdle

\* build(): process.once("SIGINT", sigIntHandler), then packager.build() is started
Build ==
  /\ buildPc = "none"
  /\ buildPc' = "packagerBuild"
  /\ sigIntListener' = TRUE
  /\ buildLog' = Append(buildLog, "once")
  /\ UNCHANGED <<tokenCancelled, buildTasks, buildWritten>>
  /\ BuildFrame

\* sigIntHandler: the token is cancelled and the publish tasks are cancelled;
\* a listener added with process.once is removed when it is called
SigInt ==
  /\ sigIntListener
  /\ sigIntListener' = FALSE
  /\ tokenCancelled' = TRUE
  /\ buildLog' = Append(buildLog, "sigint")
  /\ UNCHANGED <<buildPc, buildTasks, buildWritten>>
  /\ BuildFrame

\* artifactCreatedWithoutExplicitPublishConfig during packager.build(): the
\* update-info tasks of the artifact are added unless the token is cancelled
BuildArtifactCreated ==
  /\ buildPc = "packagerBuild"
  /\ buildTasks < MaxBuildArtifacts
  /\ buildTasks' = IF tokenCancelled THEN buildTasks ELSE buildTasks + 1
  /\ buildLog' = Append(buildLog, "artifact")
  /\ Len(buildLog) < MaxBuildArtifacts + 2
  /\ UNCHANGED <<buildPc, sigIntListener, tokenCancelled, buildWritten>>
  /\ BuildFrame

\* promise.then(() => process.removeListener("SIGINT", sigIntHandler)): the
\* listener after the promise of the handler settled with the given outcome
removeListener(outcome, listener) ==
  IF outcome = "resolved" THEN FALSE ELSE listener

\* packager.build().then(...) settles and the handler of executeFinally runs:
\* after a failure cancelTasks() and a resolved promise, whose then-callback
\* removes the listener before the original error is rethrown; after a
\* success publishManager.awaitTasks() is called
PackagerBuildSettles(outcome) ==
  /\ buildPc = "packagerBuild"
  /\ IF outcome = "rejected"
     THEN /\ buildLog' = buildLog \o <<"failed", "cancelTasks", "removeListener">>
          /\ sigIntListener' = removeListener("resolved", sigIntListener)
          /\ buildPc' = "rejected"
     ELSE /\ buildLog' = buildLog \o <<"succeeded", "awaitTasks">>
          /\ buildPc' = "taskManagerAwaitTasks"
          /\ UNCHANGED sigIntListener
  /\ UNCHANGED <<tokenCancelled, buildTasks, buildWritten>>
  /\ BuildFrame

\* awaitTasks after its first `await this.taskManager.awaitTasks()`: a
\* rejection ends awaitTasks; otherwise it returns when the token is cancelled
\* or there is no update-info task, and else calls writeUpdateInfoFiles
AwaitTasksFirst(outcome) ==
  /\ buildPc = "taskManagerAwaitTasks"
  /\ IF outcome = "rejected"
     THEN /\ buildPc' = "rejected"
          /\ buildLog' = Append(buildLog, "awaitTasksRejected")
          /\ sigIntListener' = removeListener("rejected", sigIntListener)
     ELSE IF tokenCancelled \/ buildTasks = 0
     THEN /\ buildPc' = "resolved"
          /\ buildLog' = buildLog \o <<"awaitTasksResolved", "removeListener">>
          /\ sigIntListener' = removeListener("resolved", sigIntListener)
     ELSE /\ buildPc' = "writeUpdateInfoFiles"
          /\ buildLog' = Append(buildLog, "writeUpdateInfoFiles")
          /\ UNCHANGED sigIntListener
  /\ UNCHANGED <<tokenCancelled, buildTasks, buildWritten>>
  /\ BuildFrame

\* writeUpdateInfoFiles writes the file of one more task
WriteBuildFile ==
  /\ buildPc = "writeUpdateInfoFiles"
  /\ buildWritten < buildTasks
  /\ buildWritten' = buildWritten + 1
  /\ UNCHANGED <<buildPc, sigIntListener, tokenCancelled, buildLog, buildTasks>>
  /\ BuildFrame

\* `await writeUpdateInfoFiles(...)` settles: resolved when every file is
\* written, and then the second taskManager.awaitTasks() is awaited
WriteUpdateInfoFilesSettles(outcome) ==
  /\ buildPc = "writeUpdateInfoFiles"
  /\ IF outcome = "rejected"
     THEN /\ buildPc' = "rejected"
          /\ buildLog' = Append(buildLog, "awaitTasksRejected")
          /\ sigIntListener' = removeListener("rejected", sigIntListener)
     ELSE /\ buildWritten = buildTasks
          /\ buildPc' = "taskManagerAwaitTasksAgain"
          /\ UNCHANGED <<buildLog, sigIntListener>>
  /\ UNCHANGED <<tokenCancelled, buildTasks, buildWritten>>
  /\ BuildFrame

\* the second `await this.taskManager.awaitTasks()` settles and with it
\* awaitTasks; the then-callback of the handler removes the listener
AwaitTasksSecond(outcome) ==
  /\ buildPc = "taskManagerAwaitTasksAgain"
  /\ buildPc' = outcome
  /\ buildLog' = IF outcome = "resolved"
                 THEN buildLog \o <<"awaitTasksResolved", "removeListener">>
                 ELSE Append(buildLog, "awaitTasksRejected")
  /\ sigIntListener' = removeListener(outcome, sigIntListener)
  /\ UNCHANGED <<tokenCancelled, buildTasks, buildWritten>>
  /\ BuildFrame

NextBuild ==
  \/ Build
  \/ SigInt
  \/ BuildArtifactCreated
  \/ \E outcome \in PromiseOutcomes : PackagerBuildSettles(outcome)
  \/ \E outcome \in PromiseOutcomes : AwaitTasksFirst(outcome)
  \/ WriteBuildFile
  \/ \E outcome \in PromiseOutcomes : WriteUpdateInfoFilesSettles(outcome)
  \/ \E outcome \in PromiseOutcomes : AwaitTasksSecond(outcome)

SpecBuild == InitBuild /\ [][NextBuild]_vars

BuildSettled == buildPc \in PromiseOutcomes

\* C38: when packager.build() fails the publish tasks are cancelled and
\* awaitTasks is not called; build() resolves only after awaitTasks, called
\* after the success of packager.build(), has resolved; when build() has
\* settled the SIGINT listener is no longer registered; and awaitTasks does
\* not start to write update-info files when it finds the token cancelled.
C38_BuildFinalization ==
  /\ [](/\ Count(buildLog, "failed") > 0
           => /\ Count(buildLog, "cancelTasks") = 1
              /\ Count(buildLog, "awaitTasks") = 0
        /\ buildPc = "resolved"
           => /\ Count(buildLog, "succeeded") = 1
              /\ Count(buildLog, "awaitTasks") = 1
              /\ Count(buildLog, "awaitTasksResolved") = 1
        /\ BuildSettled => ~sigIntListener)
  /\ [][(tokenCancelled /\ buildPc = "taskManagerAwaitTasks")
          => (buildPc' # "writeUpdateInfoFiles" /\ buildWritten' = buildWritten)]_vars

(***************************************************************************)
(* Packager.disposeOnBuildFinish and the handler _build gives to           *)
(* executeFinally for doBuild() (packager.ts 134-138, 338-351)             *)
(***************************************************************************)

MaxDisposers == 3

DisposeFrame ==
  UNCHANGED <<updaterVars, stagingVars, planVars, providerVars, helperVars, quitVars,
              publishVars, packVars, writeVars, buildVars>>

InitDispose ==
  /\ UpdaterIdle
  /\ StagingIdle
  /\ PlanIdle
  /\ ProviderIdle
  /\ HelperIdle
  /\ QuitIdle
  /\ PublishIdle
  /\ PackIdle
  /\ WriteIdle
  /\ BuildIdle
  /\ toDispose = <<>>
  /\ doBuildPc = "none"
  /\ disposing = <<>>
  /\ disposeLog = <<>>
  /\ debugLoggerEnabled \in BOOLEAN
  /\ doBuildOutcome = "none"
  /\ disposersRegistered = 0

\* disposeOnBuildFinish(disposer): this.toDispose.push(disposer); a disposer is
\* named by the number of its registration
disposeOnBuildFinish(list, registered) == Append(list, registered + 1)

\* a target or a caller registers a disposer before or during doBuild()
DisposeOnBuildFinish ==
  /\ doBuildPc \in {"none", "doBuild"}
  /\ disposersRegistered < MaxDisposers
  /\ toDispose' = disposeOnBuildFinish(toDispose, disposersRegistered)
  /\ disposersRegistered' = disposersRegistered + 1
  /\ UNCHANGED <<doBuildPc, disposing, disposeLog, debugLoggerEnabled, doBuildOutcome>>
  /\ DisposeFrame

\* _build registers the cleanup of the temp directories and calls doBuild()
DoBuild ==
  /\ doBuildPc = "none"
  /\ doBuildPc' = "doBuild"
  /\ toDispose' = disposeOnBuildFinish(toDispose, disposersRegistered)
  /\ disposersRegistered' = disposersRegistered + 1
  /\ UNCHANGED <<disposing, disposeLog, debugLoggerEnabled, doBuildOutcome>>
  /\ DisposeFrame

\* `const toDispose = this.toDispose.slice(); this.toDispose.length = 0`; with
\* nothing to run the handler is done and _build settles as doBuild() did
TakeDisposers(outcome) ==
  /\ disposing' = toDispose
  /\ toDispose' = <<>>
  /\ doBuildPc' = IF toDispose = <<>> THEN outcome ELSE "disposing"

\* doBuild() settles and the handler starts: the debug log is saved first
\* when the debug logger is enabled
DoBuildSettles(outcome) ==
  /\ doBuildPc = "doBuild"
  /\ doBuildOutcome' = outcome
  /\ IF debugLoggerEnabled
     THEN /\ doBuildPc' = "debugLoggerSave"
          /\ UNCHANGED <<toDispose, disposing>>
     ELSE TakeDisposers(outcome)
  /\ UNCHANGED <<disposeLog, debugLoggerEnabled, disposersRegistered>>
  /\ DisposeFrame

\* `await this.debugLogger.save(...)` settles; a rejection ends the handler,
\* and _build rejects whatever doBuild() did
DebugLoggerSaveSettles(outcome) ==
  /\ doBuildPc = "debugLoggerSave"
  /\ IF outcome = "rejected"
     THEN /\ doBuildPc' = "rejected"
          /\ UNCHANGED <<toDispose, disposing>>
     ELSE TakeDisposers(doBuildOutcome)
  /\ UNCHANGED <<disposeLog, debugLoggerEnabled, doBuildOutcome, disposersRegistered>>
  /\ DisposeFrame

\* `await disposer().catch(...)` for the next disposer of the copy: a
\* rejection is logged; after the last one _build settles as doBuild() did
RunDisposer(outcome) ==
  /\ doBuildPc = "disposing"
  /\ disposing # <<>>
  /\ disposeLog' = Append(disposeLog, [disposer |-> Head(disposing), outcome |-> outcome])
  /\ disposing' = Tail(disposing)
  /\ doBuildPc' = IF Tail(disposing) = <<>> THEN doBuildOutcome ELSE "disposing"
  /\ UNCHANGED <<toDispose, debugLoggerEnabled, doBuildOutcome, disposersRegistered>>
  /\ DisposeFrame

NextDispose ==
  \/ DisposeOnBuildFinish
  \/ DoBuild
  \/ \E outcome \in PromiseOutcomes : DoBuildSettles(outcome)
  \/ \E outcome \in PromiseOutcomes : DebugLoggerSaveSettles(outcome)
  \/ \E outcome \in PromiseOutcomes : RunDisposer(outcome)

SpecDispose == InitDispose /\ [][NextDispose]_vars

\* the disposers run so far, in the order in which they ran
DisposersRun == [i \in 1..Len(disposeLog) |-> disposeLog[i].disposer]

\* C39: when _build has settled, every registered disposer has run once and
\* in the order of registration, whether doBuild() succeeded or failed and
\* whether or not disposers failed; _build settled as doBuild() did; and the
\* list of disposers is empty.
C39_DisposersAlwaysRun ==
  doBuildPc \in PromiseOutcomes
    => /\ DisposersRun = [i \in 1..disposersRegistered |-> i]
       /\ doBuildPc = doBuildOutcome
       /\ toDispose = <<>>

=============================================================================
